---- MODULE Spec2Model ----
(***************************************************************************)
(* Model of nnef_tools/backend/pytorch/operations.py: the operators of the *)
(* PyTorch reference backend, each a pure function of its arguments.       *)
(*                                                                         *)
(* A tensor is modelled as torch lays it out: its shape and the row-major   *)
(* sequence of its elements.  An element is a record naming what the value *)
(* at that position is made of: element number i of the operator's input,  *)
(* a border fill value, or the elements a pooling window or a reduction    *)
(* was computed from.  The torch primitives (pad, narrow, permute,         *)
(* reshape, pooling, reduction) are modelled by what they do to the shape  *)
(* and to each element.                                                    *)
(*                                                                         *)
(* Every function returns a record [val, err, prims]: the value returned,  *)
(* the exception raised ("none" when it returns) and the sequence of       *)
(* backend (torch) primitives it invoked, in order.                        *)
(***************************************************************************)
EXTENDS Integers, Sequences, FiniteSets, TLC

VARIABLES pc,    \* "idle" between calls, "done" when a call has ended
          op,    \* the operator called last
          args,  \* its arguments
          ret,   \* its outcome: [val, err, prims]
          heap   \* the tensor objects of the caller that calls refer to by name

vars == <<pc, op, args, ret, heap>>

-----------------------------------------------------------------------------
(* Bounds of the model. *)

MaxRank == 6    \* tensors have up to MaxRank axes
MaxReduceRank == 4   \* the reductions are called on tensors of up to MaxReduceRank axes
MaxReduceSize == 4   \* and the extents beyond 1 and the number of axes listed add up
                     \* to at most MaxReduceSize
MaxSize == 3    \* the extents beyond 1 and the absolute padding amounts of a
                \* call add up to at most MaxSize
MaxWindow == 3  \* what the axes and options of a sliding-window call have
                \* beyond the plain call adds up to at most MaxWindow
MaxBoxRank == 3 \* the normalized box filter is called on tensors of up to
                \* MaxBoxRank axes
MaxBits == 2    \* the quantizer is called with up to MaxBits bits
MaxValue == 3   \* and on values from -1 to MaxValue
MaxWrites == 2  \* a tensor object of the caller is written in place at most
                \* MaxWrites times

-----------------------------------------------------------------------------
(* Arithmetic and list helpers. *)

Abs(x) == IF x < 0 THEN -x ELSE x
Max2(a, b) == IF a >= b THEN a ELSE b
Min2(a, b) == IF a <= b THEN a ELSE b

\* Python's seq[:n]
Take(s, n) == SubSeq(s, 1, Min2(n, Len(s)))
\* Python's seq[n:]
Drop(s, n) == SubSeq(s, n + 1, Len(s))
\* Python's seq[-n:] for 1 <= n
Last(s, n) == SubSeq(s, Max2(Len(s) - n, 0) + 1, Len(s))
\* Python's [x] * n
Repeat(x, n) == [i \in 1..n |-> x]

-----------------------------------------------------------------------------
(* Outcomes. *)

Ok(v, ps) == [val |-> v, err |-> "none", prims |-> ps]
Raise(e, ps) == [val |-> <<>>, err |-> e, prims |-> ps]
\* the outcome r of a step that comes after the primitives ps
Prepend(ps, r) == [r EXCEPT !.prims = ps \o @]

\* The exceptions of the module are all utils.NNEFToolsException; they differ
\* by their message, named here after the failure the message reports.
EmptyPaddingError == "EmptyPaddingError"
UnsupportedRankError == "UnsupportedRankError"
UnsupportedAxisConstraintError == "UnsupportedAxisConstraintError"
UnsupportedBorderError == "UnsupportedBorderError"
NonConsecutiveAxesError == "NonConsecutiveAxesError"
TooManyActiveAxesError == "TooManyActiveAxesError"
DilationUnsupportedError == "DilationUnsupportedError"
\* Python's own exceptions, and torch's.
AssertionError == "AssertionError"
ShapeMismatchError == "ShapeMismatchError"

(* The failures raised as utils.NNEFToolsException, the validation errors   *)
(* of the operators; AssertionError, IndexError, RuntimeError and           *)
(* ValueError are other exception classes.                                  *)
NNEFToolsExceptions ==
    {EmptyPaddingError, UnsupportedRankError, UnsupportedAxisConstraintError,
     UnsupportedBorderError, NonConsecutiveAxesError, TooManyActiveAxesError,
     DilationUnsupportedError, ShapeMismatchError}
IndexError == "IndexError"
RuntimeError == "RuntimeError"
ValueError == "ValueError"

-----------------------------------------------------------------------------
(* Tensors. *)

\* the element with number i of the operator's input tensor
Elt(i) == [tag |-> "in", i |-> i, sub |-> <<>>]
\* a position holding the fill value 0.0, and one holding -inf
Zero == [tag |-> "fill", i |-> 0, sub |-> <<>>]
NegInf == [tag |-> "fill", i |-> -1, sub |-> <<>>]
\* a value computed by a primitive from the elements es
Computed(kind, es) == [tag |-> kind, i |-> 0, sub |-> es]

\* number of elements of a shape
RECURSIVE Numel(_)
Numel(shape) == IF Len(shape) = 0 THEN 1 ELSE shape[1] * Numel(Tail(shape))

\* a function on 1..n written out as a list
List(f) == SubSeq(f, 1, Len(f))

\* row-major layout: the stride of each axis, the index tuple (0-based) of
\* the element at offset j (0-based), and back
Strides(shape) == List([k \in 1..Len(shape) |-> Numel(SubSeq(shape, k + 1, Len(shape)))])
Unravel(j, shape, strides) == [k \in 1..Len(shape) |-> (j \div strides[k]) % shape[k]]
RECURSIVE RavelFrom(_, _, _, _)
RavelFrom(idx, shape, k, offset) ==
    IF k > Len(shape) THEN offset
    ELSE RavelFrom(idx, shape, k + 1, offset * shape[k] + idx[k])
Ravel(idx, shape) == RavelFrom(idx, shape, 1, 0)

\* the element of t at the index tuple idx
At(t, idx) == t.data[Ravel(idx, t.shape) + 1]

\* the tensor of the given shape whose element at idx is elem(idx)
Build(shape, elem(_)) ==
    LET strides == Strides(shape)
    IN  [shape |-> shape,
         data |-> [j \in 1..Numel(shape) |-> elem(Unravel(j - 1, shape, strides))]]

\* the tensor a caller passes in
Fresh(shape) == [shape |-> shape, data |-> [j \in 1..Numel(shape) |-> Elt(j)]]

\* tensor.shape and len(tensor.shape)
Shape(t) == t.shape
Rank(t) == Len(t.shape)

(* torch.nn.functional.pad on one axis of extent n with p positions before: *)
(* the index (0-based) of the source of position i, or -1 for a position    *)
(* filled with the value.                                                   *)
PadSource(i, n, p, mode) ==
    IF i >= p /\ i < p + n THEN i - p
    ELSE IF mode = "constant" THEN -1
    ELSE IF mode = "replicate" THEN (IF i < p THEN 0 ELSE n - 1)
    ELSE IF i < p THEN p - i ELSE n - 2 - (i - (p + n))

(* torch.nn.functional.pad(input, pad, mode, value): pad lists the        *)
(* (before, after) amounts from the LAST axis backwards.  Reflection      *)
(* needs amounts smaller than the extent.                                 *)
F_pad(input, pad, mode, value) ==
    LET r == Rank(input)
        before(k) == IF 2 * (r - k) + 2 <= Len(pad) THEN pad[2 * (r - k) + 1] ELSE 0
        after(k) == IF 2 * (r - k) + 2 <= Len(pad) THEN pad[2 * (r - k) + 2] ELSE 0
        src(idx) == [k \in 1..r |-> PadSource(idx[k], input.shape[k], before(k), mode)]
    IN  IF \/ Len(pad) > 2 * r
           \/ \E k \in 1..r : before(k) < 0 \/ after(k) < 0
           \/ mode = "reflect" /\ \E k \in 1..r :
                  before(k) >= input.shape[k] \/ after(k) >= input.shape[k]
           \/ mode = "replicate" /\ \E k \in 1..r :
                  input.shape[k] = 0 /\ before(k) + after(k) > 0
        THEN Raise(RuntimeError, <<"pad">>)
        ELSE Ok(Build([k \in 1..r |-> before(k) + input.shape[k] + after(k)],
                      LAMBDA idx : IF \E k \in 1..r : src(idx)[k] < 0 THEN value
                                   ELSE At(input, src(idx))),
                <<"pad">>)

(* Tensor.narrow(dim, start, length): the positions start .. start+length-1 *)
(* (0-based) of axis dim; a negative start counts from the end.             *)
narrow(input, dim, start, length) ==
    LET n == input.shape[dim + 1]
        s == IF start < 0 THEN start + n ELSE start
    IN  IF start < -n \/ start > n \/ length < 0 \/ s + length > n
        THEN Raise(RuntimeError, <<"narrow">>)
        ELSE Ok(Build([input.shape EXCEPT ![dim + 1] = length],
                      LAMBDA idx : At(input, [idx EXCEPT ![dim + 1] = @ + s])),
                <<"narrow">>)

-----------------------------------------------------------------------------
(* nnef_slice: one narrow per listed axis; a negative begin and a           *)
(* non-positive end count from the end of the axis.  The extents are read   *)
(* once, before the loop.                                                   *)

RECURSIVE slice_loop(_, _, _, _, _, _, _)
slice_loop(input, shape, axes, begin, end, k, ps) ==
    IF k > Min2(Len(axes), Min2(Len(begin), Len(end))) THEN Ok(input, ps)
    ELSE LET axis == axes[k]
             b == begin[k]
             e1 == IF b < 0 THEN end[k] + shape[axis + 1] ELSE end[k]
             e == IF e1 <= 0 THEN e1 + shape[axis + 1] ELSE e1
             n == narrow(input, axis, b, e - b)
         IN  IF n.err # "none" THEN Raise(n.err, ps \o n.prims)
             ELSE slice_loop(n.val, shape, axes, begin, end, k + 1, ps \o n.prims)

nnef_slice(input, axes, begin, end) ==
    slice_loop(input, Shape(input), axes, begin, end, 1, <<>>)

-----------------------------------------------------------------------------
(* _positive_pad and nnef_pad. *)

\* (the pairs in the order given, first axis first)
RECURSIVE ForwardPairs(_)
ForwardPairs(padding) ==
    IF Len(padding) = 0 THEN <<>>
    ELSE <<padding[1][1], padding[1][2]>> \o ForwardPairs(Drop(padding, 1))

\* the pad list handed to F.pad: the spatial pairs, last axis first
RECURSIVE ReversedPairs(_)
ReversedPairs(padding) ==
    IF Len(padding) = 0 THEN <<>>
    ELSE <<padding[Len(padding)][1], padding[Len(padding)][2]>>
         \o ReversedPairs(SubSeq(padding, 1, Len(padding) - 1))

_positive_pad(input, padding, border, value) ==
    IF \/ \E k \in 1..Len(padding) : padding[k][1] < 0 \/ padding[k][2] < 0
       \/ Len(padding) = 0
       \/ Rank(input) \notin {3, 4, 5}
       \/ Take(padding, 2) # <<<<0, 0>>, <<0, 0>>>>
       \/ border \notin {"constant", "reflect", "replicate"}
    THEN Raise(AssertionError, <<>>)
    ELSE F_pad(input, ReversedPairs(Drop(padding, 2)), border, value)

\* the precondition tests of nnef_pad, in the order of the code: the failure
\* raised, or "none"
nnef_pad_no_border_test(input, padding, border) ==
    IF Len(padding) = 0 THEN EmptyPaddingError
    ELSE IF Rank(input) \notin {3, 4, 5} THEN UnsupportedRankError
    ELSE IF Take(padding, 2) # <<<<0, 0>>, <<0, 0>>>> THEN UnsupportedAxisConstraintError
    ELSE "none"

nnef_pad_precondition(input, padding, border) ==
    IF Len(padding) = 0 THEN EmptyPaddingError
    ELSE IF Rank(input) \notin {3, 4, 5} THEN UnsupportedRankError
    ELSE IF Take(padding, 2) # <<<<0, 0>>, <<0, 0>>>> THEN UnsupportedAxisConstraintError
    ELSE IF border \notin {"constant", "reflect", "replicate"} THEN UnsupportedBorderError
    ELSE "none"

\* the crop of the filled tensor: the negative amounts, sliced off
nnef_pad_sliced(filled, padding) ==
    IF filled.err # "none" THEN filled
    ELSE Prepend(filled.prims,
                 nnef_slice(filled.val,
                            [k \in 1..Rank(filled.val) |-> k - 1],
                            [k \in 1..Len(padding) |->
                                IF padding[k][1] < 0 THEN -padding[k][1] ELSE 0],
                            [k \in 1..Len(padding) |->
                                IF padding[k][2] < 0 THEN padding[k][2] ELSE 0]))

nnef_pad(input, padding, border, value) ==
    IF nnef_pad_precondition(input, padding, border) # "none"
    THEN Raise(nnef_pad_precondition(input, padding, border), <<>>)
    ELSE nnef_pad_sliced(
             _positive_pad(input,
                           [k \in 1..Len(padding) |->
                               <<IF padding[k][1] > 0 THEN padding[k][1] ELSE 0,
                                 IF padding[k][2] > 0 THEN padding[k][2] ELSE 0>>],
                           border, value),
             padding)

-----------------------------------------------------------------------------
(* Layout primitives of torch. *)

(* Tensor.reshape(shape): the same elements in the same order. *)
torch_reshape(input, shape) ==
    IF (\E k \in 1..Len(shape) : shape[k] < 0) \/ Numel(shape) # Numel(input.shape)
    THEN Raise(RuntimeError, <<"reshape">>)
    ELSE Ok([shape |-> shape, data |-> input.data], <<"reshape">>)

(* Tensor.permute(dims): axis k of the result is axis dims[k] of the input. *)
torch_permute(input, dims) ==
    IF Len(dims) # Rank(input) \/ {dims[k] : k \in 1..Len(dims)} # 0..(Rank(input) - 1)
    THEN Raise(RuntimeError, <<"permute">>)
    ELSE Ok(Build([k \in 1..Len(dims) |-> input.shape[dims[k] + 1]],
                  LAMBDA idx : At(input, [a \in 1..Len(dims) |->
                      idx[CHOOSE k \in 1..Len(dims) : dims[k] = a - 1]])),
            <<"permute">>)

(* Tensor.unsqueeze(0) and Tensor.squeeze(0) *)
torch_unsqueeze0(input) ==
    Ok([shape |-> <<1>> \o input.shape, data |-> input.data], <<"unsqueeze">>)
torch_squeeze0(input) ==
    IF Rank(input) = 0 THEN Raise(IndexError, <<"squeeze">>)
    ELSE Ok([shape |-> IF input.shape[1] = 1 THEN Tail(input.shape) ELSE input.shape,
             data |-> input.data], <<"squeeze">>)

\* torch.ones_like(input)
OneElt == [tag |-> "one", i |-> 1, sub |-> <<>>]
torch_ones_like(input) ==
    Ok([shape |-> input.shape, data |-> [j \in 1..Len(input.data) |-> OneElt]],
       <<"ones_like">>)

(* F.max_poolNd / F.avg_poolNd (input, kernel_size, stride, padding=0,       *)
(* dilation): the input is [N, C, spatial...]; the element at output         *)
(* position o of a spatial axis is computed from the positions               *)
(* o * stride + w * dilation, w < kernel_size, and the extent of the axis is *)
(* floor((n - dilation * (kernel_size - 1) - 1) / stride) + 1.               *)
torch_pool(input, kernel_size, stride, dilation, kind) ==
    LET r == Rank(input)
        out(k) == (input.shape[k + 2] - dilation[k] * (kernel_size[k] - 1) - 1)
                      \div stride[k] + 1
    IN  IF \/ r \notin {3, 4, 5}
           \/ Len(kernel_size) # r - 2 \/ Len(stride) # r - 2 \/ Len(dilation) # r - 2
        THEN Raise(RuntimeError, <<kind>>)
        ELSE IF \E k \in 1..(r - 2) :
                   \/ kernel_size[k] <= 0 \/ stride[k] <= 0 \/ dilation[k] <= 0
                   \/ out(k) <= 0
        THEN Raise(RuntimeError, <<kind>>)
        ELSE Ok(Build([k \in 1..r |-> IF k <= 2 THEN input.shape[k] ELSE out(k - 2)],
                      LAMBDA idx : Computed(kind,
                          [j \in 1..Numel(kernel_size) |->
                              At(input, [k \in 1..r |->
                                  IF k <= 2 THEN idx[k]
                                  ELSE idx[k] * stride[k - 2]
                                       + Unravel(j - 1, kernel_size, Strides(kernel_size))[k - 2]
                                             * dilation[k - 2]])])),
                <<kind>>)

-----------------------------------------------------------------------------
(* Helpers of nnef_tools.core.utils and nnef_tools.shape_inference. *)

\* utils.product
RECURSIVE utils_product(_)
utils_product(list) == IF Len(list) = 0 THEN 1 ELSE list[1] * utils_product(Tail(list))

\* utils.apply_permutation and utils.inverse_permutation
utils_apply_permutation(list, perm) == [k \in 1..Len(perm) |-> list[perm[k] + 1]]
utils_inverse_permutation(perm) ==
    [k \in 1..Len(perm) |-> (CHOOSE i \in 1..Len(perm) : perm[i] = k - 1) - 1]

(* shape_inference.same_padding: the padding with which a window of the     *)
(* dilated filter extent, moved by stride, covers ceil(extent / stride)     *)
(* positions; the odd unit goes after.                                      *)
shape_inference_same_padding(upscaled_input, filter, stride, dilation) ==
    [k \in 1..Len(upscaled_input) |->
        LET dilated == (filter[k] - 1) * dilation[k] + 1
            output == (upscaled_input[k] + stride[k] - 1) \div stride[k]
            total == Max2((output - 1) * stride[k] + dilated - upscaled_input[k], 0)
        IN  <<total \div 2, (total + 1) \div 2>>]

-----------------------------------------------------------------------------
(* The sliding-window operators. *)

\* stride, dilation and padding with the defaults filled in
_evaluate_max_pool_or_box_params(input_shape, size, padding, stride, dilation) ==
    LET rank == Len(input_shape)
        stride_ == IF Len(stride) = 0 THEN Repeat(1, rank) ELSE stride
        dilation_ == IF Len(dilation) = 0 THEN Repeat(1, rank) ELSE dilation
    IN  [padding |-> IF Len(padding) = 0
                     THEN shape_inference_same_padding(input_shape, size, stride_, dilation_)
                     ELSE padding,
         stride |-> stride_,
         dilation |-> dilation_]

\* F.max_poolNd on the padded input
_max_pool_impl_pooled(pad, size, stride, dilation) ==
    IF pad.err # "none" THEN pad
    ELSE Prepend(pad.prims,
                 torch_pool(pad.val, Drop(size, 2), Drop(stride, 2), Drop(dilation, 2),
                            "max_pool"))

_max_pool_impl(input, size, border, padding, stride, dilation, with_index) ==
    _max_pool_impl_pooled(
        nnef_pad(input, padding,
                 IF border = "ignore" THEN "constant" ELSE border,
                 IF border = "ignore" THEN NegInf ELSE Zero),
        size, stride, dilation)

\* return_indices=True: the pair of the maxima and of their positions
with_index_pair(result) ==
    IF result.err # "none" THEN result
    ELSE [result EXCEPT !.val =
             <<result.val,
               [shape |-> result.val.shape,
                data |-> [j \in 1..Numel(result.val.shape) |->
                             [result.val.data[j] EXCEPT !.tag = "max_pool_index"]]]>>]

\* the tests of nnef_max_pool_with_index, on the parameters with the defaults
nnef_max_pool_with_index_checked(input, size, border, c) ==
    IF Rank(input) \notin {3, 4, 5} THEN Raise(UnsupportedRankError, <<>>)
    ELSE IF \/ Take(size, 2) # <<1, 1>>
            \/ Take(c.padding, 2) # <<<<0, 0>>, <<0, 0>>>>
            \/ Take(c.stride, 2) # <<1, 1>>
            \/ Take(c.dilation, 2) # <<1, 1>>
    THEN Raise(UnsupportedAxisConstraintError, <<>>)
    ELSE with_index_pair(_max_pool_impl(input, size, border, c.padding, c.stride,
                                        c.dilation, TRUE))

nnef_max_pool_with_index(input, size, border, padding, stride, dilation) ==
    nnef_max_pool_with_index_checked(
        input, size, border,
        _evaluate_max_pool_or_box_params(input.shape, size, padding, stride, dilation))

\* (true_value, whatever the condition)
nnef_select_unconditional(condition, true_value, false_value) == true_value

\* nnef_select on three tensors of one shape: no axis is added
nnef_select_same_rank(condition, true_value, false_value) ==
    [shape |-> true_value.shape,
     data |-> [j \in 1..Len(true_value.data) |->
                  IF condition[j] THEN true_value.data[j] ELSE false_value.data[j]]]

\* avg_pool_ones > 0: the window holds an element of the ones tensor
IsPositive(e) == \E k \in 1..Len(e.sub) : e.sub[k] = OneElt

\* dilation and any(d != 1 for d in dilation)
box_dilation_unsupported(dilation) ==
    Len(dilation) # 0 /\ \E k \in 1..Len(dilation) : dilation[k] # 1

\* avg_pool_ones: F.avg_poolNd on the padded ones
_box_impl_pooled_ones(padded_ones, size, stride) ==
    IF padded_ones.err # "none" THEN padded_ones
    ELSE Prepend(<<"ones_like">> \o padded_ones.prims,
                 torch_pool(padded_ones.val, Drop(size, 2), Drop(stride, 2),
                            Repeat(1, Len(size) - 2), "avg_pool"))

\* avg_pool /= avg_pool_ones, where the windows without an element count 1
_box_impl_divided(avg_pool, avg_pool_ones) ==
    IF avg_pool_ones.err # "none"
    THEN Raise(avg_pool_ones.err, avg_pool.prims \o avg_pool_ones.prims)
    ELSE Ok([shape |-> avg_pool.val.shape,
             data |-> [j \in 1..Len(avg_pool.val.data) |->
                 Computed("div",
                     <<avg_pool.val.data[j],
                       nnef_select_same_rank(
                           [i \in 1..Len(avg_pool_ones.val.data) |->
                               IsPositive(avg_pool_ones.val.data[i])],
                           avg_pool_ones.val,
                           torch_ones_like(avg_pool_ones.val).val).data[j]>>)]],
            avg_pool.prims \o avg_pool_ones.prims
                \o <<"gt", "ones_like", "reshape", "reshape", "reshape", "where", "div_">>)

\* (avg_pool * utils.product(size), whether normalize is set or not)
_box_impl_unnormalized(input, avg_pool, size, border, padding, stride, normalize) ==
    IF avg_pool.err # "none" THEN avg_pool
    ELSE Ok([shape |-> avg_pool.val.shape,
             data |-> [j \in 1..Len(avg_pool.val.data) |->
                 [tag |-> "mul", i |-> utils_product(size),
                  sub |-> <<avg_pool.val.data[j]>>]]],
            avg_pool.prims \o <<"mul">>)

\* what is returned of avg_pool
_box_impl_normalized(input, avg_pool, size, border, padding, stride, normalize) ==
    IF avg_pool.err # "none" THEN avg_pool
    ELSE IF border = "ignore" /\ normalize
    THEN _box_impl_divided(
             avg_pool,
             _box_impl_pooled_ones(
                 nnef_pad(torch_ones_like(input).val, padding, "constant", Zero),
                 size, stride))
    ELSE IF normalize THEN avg_pool
    ELSE Ok([shape |-> avg_pool.val.shape,
             data |-> [j \in 1..Len(avg_pool.val.data) |->
                 [tag |-> "mul", i |-> utils_product(size),
                  sub |-> <<avg_pool.val.data[j]>>]]],
            avg_pool.prims \o <<"mul">>)

\* F.avg_poolNd on the padded input
_box_impl_pooled(input, pad, size, border, padding, stride, normalize) ==
    IF pad.err # "none" THEN pad
    ELSE _box_impl_normalized(
             input,
             Prepend(pad.prims,
                     torch_pool(pad.val, Drop(size, 2), Drop(stride, 2),
                                Repeat(1, Len(size) - 2), "avg_pool")),
             size, border, padding, stride, normalize)

_box_impl(input, size, border, padding, stride, dilation, normalize) ==
    IF \/ ~(3 <= Rank(input) /\ Rank(input) <= 5)
       \/ ~(Rank(input) = Len(size) /\ Len(size) = Len(padding)
            /\ Len(padding) = Len(stride) /\ Len(stride) = Len(dilation))
       \/ Take(padding, 2) # <<<<0, 0>>, <<0, 0>>>>
       \/ ~(Take(size, 2) = Take(stride, 2) /\ Take(stride, 2) = Take(dilation, 2))
    THEN Raise(AssertionError, <<>>)
    ELSE IF box_dilation_unsupported(dilation) THEN Raise(DilationUnsupportedError, <<>>)
    ELSE _box_impl_pooled(
             input,
             nnef_pad(input, padding, IF border = "ignore" THEN "constant" ELSE border, Zero),
             size, border, padding, stride, normalize)

\* size_ != 1 or padding_ != (0, 0) or stride_ != 1 or dilation_ != 1, per axis
ActiveAxes(size, padding, stride, dilation) ==
    [k \in 1..Min2(Min2(Len(size), Len(padding)), Min2(Len(stride), Len(dilation))) |->
        size[k] # 1 \/ padding[k] # <<0, 0>> \/ stride[k] # 1 \/ dilation[k] # 1]

\* sum(active)
NumActive(active) == Cardinality({k \in 1..Len(active) : active[k]})

\* [f(i) for i in range(n) if keep(i)], for 0-based i
RECURSIVE Filtered(_, _, _)
Filtered(n, keep(_), i) ==
    IF i >= n THEN <<>>
    ELSE (IF keep(i) THEN <<i>> ELSE <<>>) \o Filtered(n, keep, i + 1)

\* (the active axes first)
perm_active_first(inactive_dims, active_dims) == active_dims \o inactive_dims

\* perm = inactive_dims + active_dims
perm_of(inactive_dims, active_dims) == inactive_dims \o active_dims

\* (rank 5 is not passed through)
direct_support_below_5(input_shape, active) ==
    3 <= Len(input_shape) /\ Len(input_shape) <= 4 /\ ~active[1] /\ ~active[2]

\* (any rank from 3 up is passed through)
direct_support_any_rank(input_shape, active) ==
    3 <= Len(input_shape) /\ ~active[1] /\ ~active[2]

\* 3 <= len(input_shape) <= 5 and not active[0] and not active[1]
direct_support(input_shape, active) ==
    3 <= Len(input_shape) /\ Len(input_shape) <= 5 /\ ~active[1] /\ ~active[2]

\* (one more active axis is let through)
too_many_active_off_by_one(active) == NumActive(active) > 4

\* sum(active) > 3
too_many_active(active) == NumActive(active) > 3

_get_transform_for_box_or_max_pool(input_shape, active) ==
    IF Len(input_shape) < 3 \/ Len(input_shape) # Len(active)
    THEN [err |-> AssertionError]
    ELSE IF too_many_active(active) THEN [err |-> TooManyActiveAxesError]
    ELSE IF direct_support(input_shape, active)
    THEN [err |-> "none", perm |-> <<>>, perm_inv |-> <<>>,
          inactive_shape |-> <<>>, active_shape |-> <<>>]
    ELSE LET inactive_dims == Filtered(Len(active), LAMBDA i : ~active[i + 1], 0)
             active_dims == Filtered(Len(active), LAMBDA i : active[i + 1], 0)
             perm == perm_of(inactive_dims, active_dims)
         IN  [err |-> "none",
              perm |-> perm,
              perm_inv |-> utils_inverse_permutation(perm),
              inactive_shape |-> [k \in 1..Len(inactive_dims) |->
                                     input_shape[inactive_dims[k] + 1]],
              active_shape |-> [k \in 1..Len(active_dims) |->
                                   input_shape[active_dims[k] + 1]]]

\* the call of _max_pool_impl or _box_impl
pool_impl(c, border, normalize, is_max_pool) ==
    IF is_max_pool
    THEN _max_pool_impl(c.input, c.size, border, c.padding, c.stride, c.dilation, FALSE)
    ELSE _box_impl(c.input, c.size, border, c.padding, c.stride, c.dilation, normalize)

(* The outcome of _box_or_max_pool: besides [val, err, prims] it records    *)
(* the transform chosen (None is the empty list) and the list of the        *)
(* arguments that _max_pool_impl or _box_impl was called with.              *)
PoolOutcome(r, t, impl) ==
    [val |-> r.val, err |-> r.err, prims |-> r.prims, transform |-> t, impl |-> impl]

\* perm, perm_inv, inactive_shape, active_shape = None, None, None, None
NoTransform ==
    [err |-> "none", perm |-> <<>>, perm_inv |-> <<>>,
     inactive_shape |-> <<>>, active_shape |-> <<>>]

\* output.squeeze(0).squeeze(0)
squeezed_twice(output) ==
    IF output.err # "none" THEN output
    ELSE Prepend(output.prims \o <<"squeeze">>,
                 torch_squeeze0(torch_squeeze0(output.val).val))

\* rank < 3: two leading axes of extent 1 around the call
_box_or_max_pool_unsqueezed(unsqueezed, size, border, params, normalize, is_max_pool) ==
    PoolOutcome(
        Prepend(<<"unsqueeze", "unsqueeze">>,
                squeezed_twice(pool_impl(
                    [input |-> unsqueezed,
                     size |-> <<1, 1>> \o size,
                     padding |-> <<<<0, 0>>, <<0, 0>>>> \o params.padding,
                     stride |-> <<1, 1>> \o params.stride,
                     dilation |-> <<1, 1>> \o params.dilation],
                    border, normalize, is_max_pool))),
        NoTransform,
        <<[input |-> unsqueezed,
           size |-> <<1, 1>> \o size,
           padding |-> <<<<0, 0>>, <<0, 0>>>> \o params.padding,
           stride |-> <<1, 1>> \o params.stride,
           dilation |-> <<1, 1>> \o params.dilation]>>)

\* output.reshape(inactive_shape + output.shape[-active_rank:]).permute(*perm_inv)
restored(output, t) ==
    IF output.err # "none" THEN output
    ELSE Prepend(output.prims \o <<"reshape">>,
                 torch_permute(
                     torch_reshape(output.val,
                                   t.inactive_shape
                                       \o Last(output.val.shape, Len(t.active_shape))).val,
                     t.perm_inv))

\* the arguments of the call on the permuted and reshaped input
rearranged_args(reshaped, size, params, t) ==
    [input |-> reshaped,
     size |-> <<1, 1>> \o Last(utils_apply_permutation(size, t.perm), Len(t.active_shape)),
     padding |-> <<<<0, 0>>, <<0, 0>>>>
                     \o Last(utils_apply_permutation(params.padding, t.perm),
                             Len(t.active_shape)),
     stride |-> <<1, 1>> \o Last(utils_apply_permutation(params.stride, t.perm),
                                 Len(t.active_shape)),
     dilation |-> <<1, 1>> \o Last(utils_apply_permutation(params.dilation, t.perm),
                                   Len(t.active_shape))]

\* perm is not None: the call on the permuted and reshaped input
_box_or_max_pool_rearranged(reshaped, size, border, params, t, normalize, is_max_pool) ==
    PoolOutcome(
        Prepend(<<"permute", "reshape">>,
                restored(pool_impl(rearranged_args(reshaped, size, params, t),
                                   border, normalize, is_max_pool),
                         t)),
        t,
        <<rearranged_args(reshaped, size, params, t)>>)

\* the branches on rank and perm
_box_or_max_pool_transformed(input, size, border, params, t, normalize, is_max_pool) ==
    IF t.err # "none" THEN PoolOutcome(Raise(t.err, <<>>), NoTransform, <<>>)
    ELSE IF Rank(input) < 3
    THEN _box_or_max_pool_unsqueezed(torch_unsqueeze0(torch_unsqueeze0(input).val).val,
                                     size, border, params, normalize, is_max_pool)
    ELSE IF t.perm # <<>>
    THEN _box_or_max_pool_rearranged(
             torch_reshape(torch_permute(input, t.perm).val,
                           <<utils_product(t.inactive_shape), 1>> \o t.active_shape).val,
             size, border, params, t, normalize, is_max_pool)
    ELSE PoolOutcome(
             pool_impl([input |-> input, size |-> size, padding |-> params.padding,
                        stride |-> params.stride, dilation |-> params.dilation],
                       border, normalize, is_max_pool),
             t,
             <<[input |-> input, size |-> size, padding |-> params.padding,
                stride |-> params.stride, dilation |-> params.dilation]>>)

\* the test of sum(active) and the choice of the transform
_box_or_max_pool_active(input, size, border, params, active, normalize, is_max_pool) ==
    IF NumActive(active) = 0 THEN PoolOutcome(Ok(input, <<>>), NoTransform, <<>>)
    ELSE _box_or_max_pool_transformed(
             input, size, border, params,
             IF Rank(input) < 3 THEN NoTransform
             ELSE _get_transform_for_box_or_max_pool(input.shape, active),
             normalize, is_max_pool)

\* the defaults filled in and the active axes found
_box_or_max_pool_evaluated(input, size, border, params, normalize, is_max_pool) ==
    _box_or_max_pool_active(
        input, size, border, params,
        ActiveAxes(size, params.padding, params.stride, params.dilation),
        normalize, is_max_pool)

_box_or_max_pool(input, size, border, padding, stride, dilation, normalize, is_max_pool) ==
    IF normalize /\ is_max_pool
    THEN PoolOutcome(Raise(AssertionError, <<>>), NoTransform, <<>>)
    ELSE _box_or_max_pool_evaluated(
             input, size, border,
             _evaluate_max_pool_or_box_params(input.shape, size, padding, stride, dilation),
             normalize, is_max_pool)

nnef_max_pool(input, size, border, padding, stride, dilation) ==
    _box_or_max_pool(input, size, border, padding, stride, dilation, FALSE, TRUE)

nnef_box(input, size, border, padding, stride, dilation, normalize) ==
    _box_or_max_pool(input, size, border, padding, stride, dilation, normalize, FALSE)

-----------------------------------------------------------------------------
(* nnef_conv. *)

\* the shape of bias.squeeze(dim=0) after the broadcast of a one-element bias
conv_bias_squeezed(bias, output_channels) ==
    IF utils_product(bias) = 1 THEN <<output_channels>>
    ELSE IF Len(bias) > 0 /\ bias[1] = 1 THEN Tail(bias) ELSE bias

\* bias.reshape(1, 1).expand(...), when it is done
conv_bias_prims(bias) == IF utils_product(bias) = 1 THEN <<"reshape", "expand">> ELSE <<>>

\* an outcome together with the groups argument of the native call
with_groups(groups, outcome) ==
    [val |-> outcome.val, err |-> outcome.err, prims |-> outcome.prims,
     groups |-> groups]

(* F.conv1d/2d/3d(input, weight, bias, stride, padding=0, dilation, groups): *)
(* weight is [output channels, input channels / groups, k...]; the result   *)
(* is [N, weight.shape[0]] followed by                                      *)
(* (i - dilation * (k - 1) - 1) // stride + 1 per spatial axis.             *)
torch_conv(input, weight, bias_shape, stride, dilation, groups) ==
    IF \/ Rank(input) \notin {3, 4, 5} \/ Rank(weight) # Rank(input)
       \/ Len(stride) # Rank(input) - 2 \/ Len(dilation) # Rank(input) - 2
       \/ groups <= 0
       \/ input.shape[2] # weight.shape[2] * groups
       \/ weight.shape[1] % (IF groups <= 0 THEN 1 ELSE groups) # 0
       \/ bias_shape # <<weight.shape[1]>>
       \/ \E k \in 1..Len(stride) : stride[k] <= 0
       \/ \E k \in 1..Len(dilation) : dilation[k] <= 0
       \/ \E k \in 1..(Rank(input) - 2) :
             input.shape[k + 2] < dilation[k] * (weight.shape[k + 2] - 1) + 1
    THEN Raise(RuntimeError, <<"conv">>)
    ELSE Ok([shape |-> <<input.shape[1], weight.shape[1]>>
                           \o [k \in 1..(Rank(input) - 2) |->
                                  (input.shape[k + 2]
                                       - dilation[k] * (weight.shape[k + 2] - 1) - 1)
                                      \div stride[k] + 1],
             data |-> [j \in 1..(input.shape[1] * weight.shape[1]
                                  * Numel([k \in 1..(Rank(input) - 2) |->
                                      (input.shape[k + 2]
                                           - dilation[k] * (weight.shape[k + 2] - 1) - 1)
                                          \div stride[k] + 1])) |->
                          [tag |-> "conv", i |-> j, sub |-> <<>>]]],
            <<"conv">>)

\* (the group count 0 resolved to 1)
conv_groups_one(input, groups) == IF groups = 0 THEN 1 ELSE groups

\* groups = input.shape[1] if groups == 0 else groups
conv_groups(input, groups) == IF groups = 0 THEN input.shape[2] ELSE groups

\* (the padding as it is given, without the default)
conv_padding_as_given(input, filter, padding, stride, dilation) == padding

\* padding = shape_inference.same_padding(...) if not padding else padding
conv_padding(input, filter, padding, stride, dilation) ==
    IF Len(padding) = 0
    THEN shape_inference_same_padding(Drop(input.shape, 2), Drop(filter.shape, 2),
                                      stride, dilation)
    ELSE padding

\* the native call on the padded input
nnef_conv_padded(pad, ps, filter, bias_shape, stride, dilation, groups) ==
    IF pad.err # "none" THEN Prepend(ps, pad)
    ELSE Prepend(ps \o pad.prims,
                 torch_conv(pad.val, filter, bias_shape, stride, dilation, groups))

\* nnef_conv with stride and dilation filled in and groups resolved
nnef_conv_resolved(input, filter, bias, border, padding, stride, dilation, groups) ==
    with_groups(groups,
        nnef_conv_padded(
            nnef_pad(input,
                     <<<<0, 0>>, <<0, 0>>>>
                         \o conv_padding(input, filter, padding, stride, dilation),
                     border, Zero),
            conv_bias_prims(bias),
            filter, conv_bias_squeezed(bias, filter.shape[1]), stride, dilation, groups))

nnef_conv(input, filter, bias, border, padding, stride, dilation, groups) ==
    IF Rank(input) \notin {3, 4, 5} THEN Raise(UnsupportedRankError, <<>>)
    ELSE nnef_conv_resolved(
             input, filter, bias, border, padding,
             IF Len(stride) = 0 THEN Repeat(1, Rank(input) - 2) ELSE stride,
             IF Len(dilation) = 0 THEN Repeat(1, Rank(input) - 2) ELSE dilation,
             conv_groups(input, groups))

-----------------------------------------------------------------------------
(* nnef_deconv. *)

(* F.conv_transpose1d/2d/3d(input, weight, bias, stride, padding=0,         *)
(* output_padding=0, groups, dilation): weight is [input channels, output   *)
(* channels / groups, k...]; the result is [N, weight.shape[1] * groups]    *)
(* followed by (i - 1) * stride + (k - 1) * dilation + 1 per spatial axis.  *)
(* bias_shape is the shape of the bias handed over.                         *)
torch_conv_transpose(input, weight, bias_shape, stride, dilation, groups) ==
    IF \/ Rank(input) \notin {3, 4, 5} \/ Rank(weight) # Rank(input)
       \/ Len(stride) # Rank(input) - 2 \/ Len(dilation) # Rank(input) - 2
       \/ groups <= 0
       \/ input.shape[2] # weight.shape[1]
       \/ weight.shape[1] % (IF groups <= 0 THEN 1 ELSE groups) # 0
       \/ bias_shape # <<weight.shape[2] * groups>>
       \/ \E k \in 1..Len(stride) : stride[k] <= 0
       \/ \E k \in 1..Len(dilation) : dilation[k] <= 0
    THEN Raise(RuntimeError, <<"conv_transpose">>)
    ELSE Ok([shape |-> <<input.shape[1], weight.shape[2] * groups>>
                           \o [k \in 1..(Rank(input) - 2) |->
                                  (input.shape[k + 2] - 1) * stride[k]
                                      + (weight.shape[k + 2] - 1) * dilation[k] + 1],
             data |-> [j \in 1..(input.shape[1] * weight.shape[2] * groups
                                  * Numel([k \in 1..(Rank(input) - 2) |->
                                      (input.shape[k + 2] - 1) * stride[k]
                                          + (weight.shape[k + 2] - 1) * dilation[k] + 1])) |->
                          [tag |-> "conv_transpose", i |-> j, sub |-> <<>>]]],
            <<"conv_transpose">>)

(* shape_inference.conv(..., deconv=True)[2:]: the transpose of the forward *)
(* shape formula; Padding.VALID is the padding (0, 0) on every axis.        *)
shape_inference_deconv_size(input_size, filter, padding, stride, dilation) ==
    [k \in 1..Len(input_size) |->
        (input_size[k] - 1) * stride[k] + (filter[k] - 1) * dilation[k] + 1
            - (padding[k][1] + padding[k][2])]

\* Padding.VALID
VALID(n) == [k \in 1..n |-> <<0, 0>>]

\* (crop_after without the crop before)
crop_after_without_before(uncropped_output_size, output_size, crop_before) ==
    [k \in 1..Min2(Len(uncropped_output_size), Min2(Len(output_size), Len(crop_before))) |->
        uncropped_output_size[k] - output_size[k]]

\* crop_after = [uncropped - out - before ...]
crop_after_of(uncropped_output_size, output_size, crop_before) ==
    [k \in 1..Min2(Len(uncropped_output_size), Min2(Len(output_size), Len(crop_before))) |->
        uncropped_output_size[k] - output_size[k] - crop_before[k]]

\* the shape of bias.squeeze(dim=0) after the broadcast of a one-element bias
bias_squeezed(bias, output_channels) ==
    IF utils_product(bias) = 1 THEN <<output_channels>>
    ELSE IF Len(bias) > 0 /\ bias[1] = 1 THEN Tail(bias) ELSE bias

\* bias.reshape(1, 1).expand(...), when it is done
bias_prims(bias) == IF utils_product(bias) = 1 THEN <<"reshape", "expand">> ELSE <<>>

\* nnef_pad by the negated crops
nnef_deconv_cropped(deconv, ps, crop_before, crop_after) ==
    IF deconv.err # "none" THEN Prepend(ps, deconv)
    ELSE Prepend(ps \o deconv.prims,
                 nnef_pad(deconv.val,
                          <<<<0, 0>>, <<0, 0>>>>
                              \o [k \in 1..Min2(Len(crop_before), Len(crop_after)) |->
                                     <<-crop_before[k], -crop_after[k]>>],
                          "constant", Zero))

\* the native call and the crop, with padding and output_size resolved
nnef_deconv_sized(input, filter, bias, padding, output_size, stride, dilation, groups) ==
  with_groups(groups,
    nnef_deconv_cropped(
        torch_conv_transpose(input, filter, bias_squeezed(bias, filter.shape[2] * groups),
                             stride, dilation, groups),
        bias_prims(bias),
        [k \in 1..Len(padding) |-> padding[k][1]],
        crop_after_of(
            shape_inference_deconv_size(Drop(input.shape, 2), Drop(filter.shape, 2),
                                        VALID(Rank(input) - 2), stride, dilation),
            output_size,
            [k \in 1..Len(padding) |-> padding[k][1]])))

\* (output_size from output_shape or the scaled input, whatever the padding)
deconv_output_size_scaled(input, filter, padding, stride, dilation, output_shape) ==
    IF Len(output_shape) # 0 THEN Drop(output_shape, 2)
    ELSE [k \in 1..Min2(Rank(input) - 2, Len(stride)) |-> input.shape[k + 2] * stride[k]]

\* output_size, from output_shape, the scaled input or the given padding
deconv_output_size(input, filter, padding, stride, dilation, output_shape) ==
    IF Len(output_shape) # 0 THEN Drop(output_shape, 2)
    ELSE IF Len(padding) = 0
    THEN [k \in 1..Min2(Rank(input) - 2, Len(stride)) |-> input.shape[k + 2] * stride[k]]
    ELSE shape_inference_deconv_size(Drop(input.shape, 2), Drop(filter.shape, 2),
                                     padding, stride, dilation)

\* padding, with the default filled in: the same-padding of output_size
deconv_padding(input, filter, padding, stride, dilation, output_shape) ==
    IF Len(padding) = 0
    THEN shape_inference_same_padding(
             deconv_output_size(input, filter, padding, stride, dilation, output_shape),
             Drop(filter.shape, 2), stride, dilation)
    ELSE padding

\* the test of the channels of output_shape, and the padding default
nnef_deconv_resolved(input, filter, bias, padding, stride, dilation, output_shape, groups) ==
    IF Len(output_shape) # 0 /\ output_shape[2] # filter.shape[2] * groups
    THEN Raise(AssertionError, <<>>)
    ELSE nnef_deconv_sized(
             input, filter, bias,
             deconv_padding(input, filter, padding, stride, dilation, output_shape),
             deconv_output_size(input, filter, padding, stride, dilation, output_shape),
             stride, dilation, groups)

\* (the group count 0 resolved from the filter, whatever output_shape is)
deconv_groups_from_filter(filter, output_shape, groups) ==
    IF groups # 0 THEN groups ELSE filter.shape[1]

\* the resolution of the group count 0
deconv_groups(filter, output_shape, groups) ==
    IF groups # 0 THEN groups
    ELSE IF Len(output_shape) # 0 THEN output_shape[2] ELSE filter.shape[1]

nnef_deconv(input, filter, bias, border, padding, stride, dilation, output_shape, groups) ==
    IF border # "constant" THEN Raise(UnsupportedBorderError, <<>>)
    ELSE IF Rank(input) \notin {3, 4, 5} THEN Raise(UnsupportedRankError, <<>>)
    ELSE nnef_deconv_resolved(
             input, filter, bias, padding,
             IF Len(stride) = 0 THEN Repeat(1, Rank(input) - 2) ELSE stride,
             IF Len(dilation) = 0 THEN Repeat(1, Rank(input) - 2) ELSE dilation,
             IF Len(output_shape) # 0 /\ output_shape[1] # input.shape[1]
             THEN [output_shape EXCEPT ![1] = input.shape[1]] ELSE output_shape,
             deconv_groups(filter, output_shape, groups))

-----------------------------------------------------------------------------
(* nnef_batch_normalization and nnef_update, on tensor objects of the       *)
(* caller.  A tensor object has the attributes is_parameter (it is a        *)
(* torch.nn.Parameter), requires_grad, and contents: the number of times    *)
(* its values have been overwritten.  A heap maps names to tensor objects.  *)

\* t.requires_grad = False, for the Parameters among mean and variance
requires_grad_cleared(h, mean, variance) ==
    [n \in DOMAIN h |->
        IF n \in {mean, variance} /\ h[n].is_parameter
        THEN [h[n] EXCEPT !.requires_grad = FALSE] ELSE h[n]]

(* running = (1 - momentum) * running + momentum * batch statistic, written *)
(* through the views that the reshape of nnef_squeeze returns               *)
running_updated(h, running_mean, running_var) ==
    [n \in DOMAIN h |->
        IF n \in {running_mean, running_var}
        THEN [h[n] EXCEPT !.contents = @ + 1] ELSE h[n]]

\* what F.batch_norm returns on success
batch_norm_result(input_shape) ==
    [shape |-> input_shape,
     data |-> [j \in 1..Numel(input_shape) |->
                  [tag |-> "batch_norm", i |-> j, sub |-> <<>>]]]

(* F.batch_norm: in training mode it refuses an input with one value per    *)
(* channel, and otherwise writes the running statistics in place.  Whether  *)
(* a running statistic that requires grad is refused (RuntimeError) or      *)
(* written depends on the build of torch: refuses_grad.  The outcome is     *)
(* [heap, ret].                                                             *)
F_batch_norm(h, input_shape, running_mean, running_var, training, momentum, refuses_grad) ==
    IF training /\ utils_product(input_shape) = input_shape[2]
    THEN [heap |-> h, ret |-> Raise(ValueError, <<"reshape", "reshape", "reshape", "reshape">>)]
    ELSE IF training /\ refuses_grad
            /\ (h[running_mean].requires_grad \/ h[running_var].requires_grad)
    THEN [heap |-> h,
          ret |-> Raise(RuntimeError,
                        <<"reshape", "reshape", "reshape", "reshape", "batch_norm">>)]
    ELSE [heap |-> IF training /\ momentum # 0
                   THEN running_updated(h, running_mean, running_var) ELSE h,
          ret |-> Ok(batch_norm_result(input_shape),
                     <<"reshape", "reshape", "reshape", "reshape", "batch_norm">>)]

\* momentum is in tenths
nnef_batch_normalization(h, input_shape, mean, variance, is_training, momentum, refuses_grad) ==
    F_batch_norm(requires_grad_cleared(h, mean, variance), input_shape, mean, variance,
                 is_training, momentum, refuses_grad)

nnef_update(h, variable, value) == [heap |-> h, ret |-> Ok(value, <<>>)]

-----------------------------------------------------------------------------
(* The helpers of the binary operators. *)

\* input.reshape(shape + rank_diff * (1,)); a negative rank_diff adds nothing
_expand_to_rank(input, rank) ==
    torch_reshape(input, input.shape \o Repeat(1, Max2(0, rank - Rank(input))))

\* the pair of two outcomes
outcome_pair(first, second) ==
    IF first.err # "none" THEN first
    ELSE IF second.err # "none" THEN Prepend(first.prims, second)
    ELSE Ok(<<first.val, second.val>>, first.prims \o second.prims)

_expand_binary(input1, input2) ==
    outcome_pair(_expand_to_rank(input1, Max2(Rank(input1), Rank(input2))),
                 _expand_to_rank(input2, Max2(Rank(input1), Rank(input2))))

-----------------------------------------------------------------------------
(* nnef_desample. *)

(* shape_inference.sliding_window(..., upscale=True): the transpose of the  *)
(* forward sliding-window shape formula, on every axis.                     *)
shape_inference_sliding_window_upscale(input, filter, padding, stride, dilation) ==
    [k \in 1..Len(input) |->
        (input[k] - 1) * stride[k] + (filter[k] - 1) * dilation[k] + 1
            - (padding[k][1] + padding[k][2])]

(* F.max_unpool1d/2d/3d(input, indices, kernel_size, stride, padding=0,     *)
(* output_size): output_size has the batch and channel entries in front,    *)
(* which are dropped; each spatial entry has to lie strictly between        *)
(* default - stride and default + stride, default = (i - 1) * stride + k.   *)
torch_max_unpool(input, indices, kernel_size, stride, output_size) ==
    IF \/ Rank(input) \notin {3, 4, 5} \/ indices.shape # input.shape
       \/ Len(kernel_size) # Rank(input) - 2 \/ Len(stride) # Rank(input) - 2
       \/ Len(output_size) # Rank(input)
    THEN Raise(RuntimeError, <<"max_unpool">>)
    ELSE IF \E k \in 1..(Rank(input) - 2) :
               \/ output_size[k + 2] <= (input.shape[k + 2] - 1) * stride[k]
                                            + kernel_size[k] - stride[k]
               \/ output_size[k + 2] >= (input.shape[k + 2] - 1) * stride[k]
                                            + kernel_size[k] + stride[k]
    THEN Raise(ValueError, <<"max_unpool">>)
    ELSE Ok([shape |-> Take(input.shape, 2) \o Drop(output_size, 2),
             data |-> [j \in 1..Numel(Take(input.shape, 2) \o Drop(output_size, 2)) |->
                          [tag |-> "max_unpool", i |-> j, sub |-> <<>>]]],
            <<"max_unpool">>)

\* the slice of the unpooled tensor to output_shape
nnef_desample_sliced(unpooled, padding, output_shape) ==
    IF unpooled.err # "none" THEN unpooled
    ELSE Prepend(unpooled.prims,
                 nnef_slice(unpooled.val, [k \in 1..Rank(unpooled.val) |-> k - 1],
                            [k \in 1..Len(padding) |-> padding[k][1]],
                            [k \in 1..Min2(Len(padding), Len(output_shape)) |->
                                padding[k][1] + output_shape[k]]))

\* the unpooling into the padded output shape, and the slice
nnef_desample_unpooled(input, index, size, padding, stride, output_shape) ==
    nnef_desample_sliced(
        torch_max_unpool(input, index, Drop(size, 2), Drop(stride, 2),
                         [k \in 1..Min2(Len(output_shape), Len(padding)) |->
                             output_shape[k] + padding[k][1] + padding[k][2]]),
        padding, output_shape)

\* calculated_output_shape, with stride and dilation filled in
desample_calculated_output_shape(input_shape, size, padding, stride, dilation) ==
    IF Len(padding) = 0
    THEN [k \in 1..Min2(Len(input_shape), Len(stride)) |-> input_shape[k] * stride[k]]
    ELSE shape_inference_sliding_window_upscale(input_shape, size, padding, stride,
                                                dilation)

\* padding, with the default filled in: the same-padding of the calculated
\* output shape, whatever output_shape is
desample_padding(input_shape, size, padding, stride, dilation) ==
    IF Len(padding) = 0
    THEN shape_inference_same_padding(
             desample_calculated_output_shape(input_shape, size, padding, stride,
                                              dilation),
             size, stride, dilation)
    ELSE padding

\* output_shape if output_shape else calculated_output_shape
desample_output_shape(input_shape, size, padding, stride, dilation, output_shape) ==
    IF Len(output_shape) # 0 THEN output_shape
    ELSE desample_calculated_output_shape(input_shape, size, padding, stride, dilation)

\* nnef_desample after its tests, with stride and dilation filled in
nnef_desample_resolved(input, index, size, padding, stride, dilation, output_shape) ==
    nnef_desample_unpooled(
        input, index, size,
        desample_padding(input.shape, size, padding, stride, dilation),
        stride,
        desample_output_shape(input.shape, size, padding, stride, dilation, output_shape))

(* border is not used.  The five tests raise utils.NNEFToolsException; the  *)
(* last one is on the dilation of every axis.                               *)
nnef_desample(input, index, size, border, padding, stride, dilation, output_shape) ==
    IF Rank(input) \notin {3, 4, 5} THEN Raise(UnsupportedRankError, <<>>)
    ELSE IF Len(size) # 0 /\ Take(size, 2) # <<1, 1>>
    THEN Raise(UnsupportedAxisConstraintError, <<>>)
    ELSE IF Len(padding) # 0 /\ Take(padding, 2) # <<<<0, 0>>, <<0, 0>>>>
    THEN Raise(UnsupportedAxisConstraintError, <<>>)
    ELSE IF Len(stride) # 0 /\ Take(stride, 2) # <<1, 1>>
    THEN Raise(UnsupportedAxisConstraintError, <<>>)
    ELSE IF Len(dilation) # 0 /\ \E k \in 1..Len(dilation) : dilation[k] # 1
    THEN Raise(UnsupportedAxisConstraintError, <<>>)
    ELSE nnef_desample_resolved(
             input, index, size, padding,
             IF Len(stride) = 0 THEN Repeat(1, Rank(input)) ELSE stride,
             IF Len(dilation) = 0 THEN Repeat(1, Rank(input)) ELSE dilation,
             IF Len(output_shape) # 0 /\ output_shape[1] # input.shape[1]
             THEN [output_shape EXCEPT ![1] = input.shape[1]] ELSE output_shape)

-----------------------------------------------------------------------------
(* nnef_clamp and nnef_linear_quantize.  The elements of the tensors are    *)
(* integers (the values in some unit); a quotient is kept as [num, den],    *)
(* and nan is what 0 / 0 gives.                                             *)

nan == [num |-> 0, den |-> 0]

\* the shape two tensors of one rank broadcast to
broadcast_shape(shape1, shape2) ==
    [k \in 1..Len(shape1) |-> IF shape1[k] = 1 THEN shape2[k] ELSE shape1[k]]

\* the element of t that position idx of the broadcast tensor reads
broadcast_at(t, idx) ==
    At(t, [k \in 1..Len(idx) |-> IF t.shape[k] = 1 THEN 0 ELSE idx[k]])

\* torch.max(torch.min(x, b), a), on one element
clamp_value(x, a, b) == Max2(Min2(x, b), a)

\* (the quotient num / den rounded down)
round_down(num, den) == num \div den

\* torch.round of num / den, den > 0: to the nearest integer, a half to even
round_half_even(num, den) ==
    IF 2 * (num % den) < den THEN num \div den
    ELSE IF 2 * (num % den) > den THEN num \div den + 1
    ELSE IF (num \div den) % 2 = 0 THEN num \div den ELSE num \div den + 1

\* q = torch.round((z - min) / (max - min) * r), on one element
quantize_level(z, min, max, r) ==
    IF max > min THEN round_half_even((z - min) * r, max - min)
    ELSE 0 - round_half_even((z - min) * r, min - max)

\* q / r * (max - min) + min, on one element
dequantize_value(q, min, max, r) == [num |-> q * (max - min) + min * r, den |-> r]

(* the arithmetic of nnef_linear_quantize on one element; max = min divides *)
(* 0 by 0, and bits = 0 divides q = 0 by r = 0                              *)
linear_quantize_value(x, min, max, bits) ==
    IF max = min \/ 2 ^ bits - 1 = 0 THEN nan
    ELSE dequantize_value(
             quantize_level(clamp_value(x, min, max), min, max, 2 ^ bits - 1),
             min, max, 2 ^ bits - 1)

\* the primitives of nnef_clamp, and those of nnef_linear_quantize after it
clamp_prims == <<"reshape", "reshape", "reshape", "min", "max">>
quantize_prims == <<"sub", "sub", "div", "mul", "round", "div", "sub", "mul", "add">>

\* nnef_linear_quantize on x, min and max of one rank
nnef_linear_quantize_expanded(x, min, max, bits) ==
    Ok(Build(broadcast_shape(broadcast_shape(x.shape, min.shape), max.shape),
             LAMBDA idx : linear_quantize_value(broadcast_at(x, idx),
                                                broadcast_at(min, idx),
                                                broadcast_at(max, idx), bits)),
       <<"reshape", "reshape", "reshape">> \o clamp_prims \o quantize_prims)

nnef_linear_quantize(x, min, max, bits) ==
    nnef_linear_quantize_expanded(
        _expand_to_rank(x, Max2(Rank(x), Max2(Rank(min), Rank(max)))).val,
        _expand_to_rank(min, Max2(Rank(x), Max2(Rank(min), Rank(max)))).val,
        _expand_to_rank(max, Max2(Rank(x), Max2(Rank(min), Rank(max)))).val,
        bits)

-----------------------------------------------------------------------------
(* Reductions. *)

\* Python's sorted() and reversed()
RECURSIVE Insert(_, _)
Insert(x, s) ==
    IF Len(s) = 0 THEN <<x>>
    ELSE IF x <= s[1] THEN <<x>> \o s
    ELSE <<s[1]>> \o Insert(x, Tail(s))
\* (the list as it is given)
unsorted(s) == s

RECURSIVE sorted(_)
sorted(s) == IF Len(s) = 0 THEN <<>> ELSE Insert(s[1], sorted(Tail(s)))
reversed(s) == [k \in 1..Len(s) |-> s[Len(s) + 1 - k]]

(* torch.sum / mean / min / max / argmin / argmax (input, dim, keepdim=True): *)
(* axis dim keeps extent 1 and holds the value computed from the elements     *)
(* along it.                                                                  *)
torch_reduce(input, dim, kind) ==
    LET r == Rank(input)
        d == IF dim < 0 THEN dim + r ELSE dim
    IN  IF dim < -r \/ dim >= r THEN Raise(IndexError, <<kind>>)
        ELSE IF input.shape[d + 1] = 0 /\ kind \notin {"sum", "mean"}
             THEN Raise(RuntimeError, <<kind>>)
        ELSE Ok(Build([input.shape EXCEPT ![d + 1] = 1],
                      LAMBDA idx : Computed(kind,
                          [i \in 1..input.shape[d + 1] |->
                              At(input, [idx EXCEPT ![d + 1] = i - 1])])),
                <<kind>>)

(* shape_inference.reshape(input, shape, offset=0, count=-1,              *)
(* zero_means_same=True): an entry 0 keeps the input's extent of that     *)
(* axis and an entry -1 takes what is left of the elements.               *)
shape_inference_reshape(input, shape) ==
    LET same == [k \in 1..Len(shape) |->
                    IF shape[k] = 0 /\ k <= Len(input) THEN input[k] ELSE shape[k]]
        known == Numel([k \in 1..Len(same) |-> IF same[k] = -1 THEN 1 ELSE same[k]])
    IN  [k \in 1..Len(same) |->
            IF same[k] = -1 /\ known # 0 THEN Numel(input) \div known ELSE same[k]]

nnef_reshape(input, shape) ==
    torch_reshape(input, shape_inference_reshape(input.shape, shape))

RECURSIVE reduce_loop(_, _, _, _)
reduce_loop(input, axes, kind, ps) ==
    IF Len(axes) = 0 THEN Ok(input, ps)
    ELSE LET one == torch_reduce(input, axes[1], kind)
         IN  IF one.err # "none" THEN Raise(one.err, ps \o one.prims)
             ELSE reduce_loop(one.val, Tail(axes), kind, ps \o one.prims)

_nnef_generic_reduce(input, axes, kind) ==
    IF Len(axes) = 0 THEN Ok(input, <<>>)
    ELSE reduce_loop(input, reversed(sorted(axes)), kind, <<>>)

nnef_sum_reduce(input, axes, normalize) ==
    _nnef_generic_reduce(input, axes, IF normalize THEN "mean" ELSE "sum")
nnef_max_reduce(input, axes) == _nnef_generic_reduce(input, axes, "max")
nnef_min_reduce(input, axes) == _nnef_generic_reduce(input, axes, "min")
nnef_mean_reduce(input, axes) == _nnef_generic_reduce(input, axes, "mean")

\* list(range(a, b))
range(a, b) == [k \in 1..(b - a) |-> a + k - 1]

\* (only the first and the last of the sorted axes compared with the run)
consecutive_by_ends(axes) ==
    axes[Len(axes)] = axes[1] + Len(axes) - 1

\* axes == consecutive_axes, for sorted axes
consecutive(axes) == axes = range(axes[1], axes[1] + Len(axes))

_nnef_argminmax_reduce(input, axes_, argmin) ==
    LET kind == IF argmin THEN "argmin" ELSE "argmax" IN
    IF Len(axes_) = 1 THEN _nnef_generic_reduce(input, axes_, kind)
    ELSE LET axes == sorted(axes_) IN
         IF Len(axes) = 0 THEN Raise(IndexError, <<>>)
         ELSE IF ~consecutive(axes) THEN Raise(NonConsecutiveAxesError, <<>>)
         ELSE LET reshaped == nnef_reshape(
                      input,
                      Take(input.shape, axes[1]) \o <<-1>>
                          \o Drop(input.shape, axes[1] + Len(axes)))
              IN  IF reshaped.err # "none" THEN reshaped
                  ELSE LET reduced == _nnef_generic_reduce(reshaped.val, <<axes[1]>>, kind)
                       IN  IF reduced.err # "none"
                           THEN Raise(reduced.err, reshaped.prims \o reduced.prims)
                           ELSE LET back == nnef_reshape(
                                        reduced.val,
                                        [k \in 1..Rank(input) |->
                                            IF \E j \in 1..Len(axes) : axes[j] = k - 1
                                            THEN 1 ELSE input.shape[k]])
                                IN  [back EXCEPT !.prims =
                                        reshaped.prims \o reduced.prims \o @]

nnef_argmax_reduce(input, axes) == _nnef_argminmax_reduce(input, axes, FALSE)
nnef_argmin_reduce(input, axes) == _nnef_argminmax_reduce(input, axes, TRUE)

ReduceKinds == {"sum", "mean", "min", "max", "argmin", "argmax"}

\* the entries of the operations table for the reductions
reduce(input, axes, kind) ==
    CASE kind = "sum" -> nnef_sum_reduce(input, axes, FALSE)
      [] kind = "mean" -> nnef_mean_reduce(input, axes)
      [] kind = "min" -> nnef_min_reduce(input, axes)
      [] kind = "max" -> nnef_max_reduce(input, axes)
      [] kind = "argmin" -> nnef_argmin_reduce(input, axes)
      [] kind = "argmax" -> nnef_argmax_reduce(input, axes)

-----------------------------------------------------------------------------
(* The arguments the calls are made with. *)

\* the shapes of rank r with at most extra elements beyond 1 per axis in total
RECURSIVE ShapesWithin(_, _)
ShapesWithin(r, extra) ==
    IF r = 0 THEN {<<>>}
    ELSE UNION {{<<1 + x>> \o rest : rest \in ShapesWithin(r - 1, extra - x)} :
                x \in 0..extra}

\* the padding lists of n signed pairs whose absolute amounts sum to at most budget
RECURSIVE PaddingsWithin(_, _)
PaddingsWithin(n, budget) ==
    IF n = 0 THEN {<<>>}
    ELSE UNION {{<<pq>> \o rest : rest \in PaddingsWithin(n - 1, budget - Abs(pq[1]) - Abs(pq[2]))} :
                pq \in {x \in (-budget..budget) \X (-budget..budget) :
                            Abs(x[1]) + Abs(x[2]) <= budget}}

\* what a shape uses of MaxSize
RECURSIVE Extra(_)
Extra(shape) == IF Len(shape) = 0 THEN 0 ELSE shape[1] - 1 + Extra(Tail(shape))

\* the lists of up to n axes of a tensor of rank r
RECURSIVE AxesLists(_, _)
AxesLists(r, n) ==
    IF n = 0 THEN {<<>>}
    ELSE AxesLists(r, n - 1)
         \cup {<<a>> \o rest : a \in 0..(r - 1), rest \in {x \in AxesLists(r, n - 1) : Len(x) = n - 1}}

Borders == {"constant", "reflect", "replicate", "ignore"}

(* One axis of a sliding-window call: the extent of the input, and the size, *)
(* stride, dilation and padding pair listed for the axis.  Its cost is what  *)
(* it has beyond extent 1, size 1, stride 1, dilation 1 and padding (0, 0).  *)
(* The padding amounts are not negative.                                     *)
AxisCost(a) ==
    (a.ext - 1) + (a.size - 1) + (a.stride - 1) + (a.dilation - 1)
        + a.pad[1] + a.pad[2]

\* the pairs of padding amounts that sum to at most budget
PairsWithin(budget) == UNION {{<<p, q>> : q \in 0..(budget - p)} : p \in 0..budget}

\* the axes of at most budget cost
AxisWithin(budget) ==
    UNION {UNION {UNION {UNION {
        {[ext |-> 1 + e, size |-> 1 + s, stride |-> 1 + t, dilation |-> 1 + d, pad |-> pq] :
            pq \in PairsWithin(budget - e - s - t - d)} :
        d \in 0..(budget - e - s - t)} :
        t \in 0..(budget - e - s)} :
        s \in 0..(budget - e)} :
        e \in 0..budget}

\* (the same sets, listed once per budget)
AxisMenu == [budget \in 0..(MaxWindow + 1) |-> AxisWithin(budget)]

AxisPlain(a) == a.size = 1 /\ a.stride = 1 /\ a.dilation = 1 /\ a.pad = <<0, 0>>

PoolBorders == Borders \cup {"reflect-even"}

\* the operator and options of a sliding-window call, and what they cost
PoolOptions ==
    {[is_max_pool |-> m, normalize |-> n, border |-> b, omit |-> d] :
        m \in BOOLEAN, n \in BOOLEAN, b \in PoolBorders, d \in BOOLEAN}
OptionsCost(o) ==
    (IF o.is_max_pool THEN 0 ELSE 1) + (IF o.border = "constant" THEN 0 ELSE 1)
        + (IF o.omit THEN 1 ELSE 0)

AllOnes(list) == \A k \in 1..Len(list) : list[k] = 1
AllZeroPairs(list) == \A k \in 1..Len(list) : list[k] = <<0, 0>>

(* The arguments made of a list of axes.  With the option omit, a stride or dilation   *)
(* that is 1 on every axis is left out (None), and so is a padding that is  *)
(* (0, 0) on every axis, which asks for the automatic padding.              *)
PoolArgs(axes, o) ==
    LET r == Len(axes)
        stride == [k \in 1..r |-> axes[k].stride]
        dilation == [k \in 1..r |-> axes[k].dilation]
        padding == [k \in 1..r |-> axes[k].pad]
    IN  [input |-> Fresh([k \in 1..r |-> axes[k].ext]),
         size |-> [k \in 1..r |-> axes[k].size],
         border |-> o.border,
         padding |-> IF o.omit /\ AllZeroPairs(padding) THEN <<>> ELSE padding,
         stride |-> IF o.omit /\ AllOnes(stride) THEN <<>> ELSE stride,
         dilation |-> IF o.omit /\ AllOnes(dilation) THEN <<>> ELSE dilation,
         normalize |-> o.normalize,
         is_max_pool |-> o.is_max_pool]

(* One spatial axis of a deconvolution call: an axis as above (size is the  *)
(* extent of the filter) and delta, by which the extent asked for in        *)
(* output_shape departs from the natural one; |delta| adds to the cost.     *)
DeconvAxisWithin(budget) ==
    UNION {{[axis |-> a, delta |-> d] :
               d \in (AxisCost(a) - budget)..(budget - AxisCost(a))} :
           a \in AxisWithin(budget)}

\* (the same sets, listed once per budget)
DeconvAxisMenu == [budget \in 0..MaxWindow |-> DeconvAxisWithin(budget)]

\* the options of a deconvolution call, and what they cost
DeconvOptions ==
    [batch : 1..2, channels : 1..2, filter0_differs : BOOLEAN, filter1 : 1..2,
     groups : 0..2, border : {"constant", "replicate"}, omit : BOOLEAN,
     output_shape : {"given", "other batch", "other channels", "none"},
     bias : {"row", "one", "short"}]
DeconvOptionsCost(o) ==
    (o.batch - 1) + (o.channels - 1) + (IF o.filter0_differs THEN 1 ELSE 0)
        + (o.filter1 - 1) + (IF o.groups = 1 THEN 0 ELSE 1)
        + (IF o.border = "constant" THEN 0 ELSE 1) + (IF o.omit THEN 1 ELSE 0)
        + (IF o.output_shape = "given" THEN 0 ELSE 1) + (IF o.bias = "row" THEN 0 ELSE 1)

\* the extent asked for on a spatial axis
AskedExtent(x, omit_padding) ==
    x.delta + (IF omit_padding THEN x.axis.ext * x.axis.stride
               ELSE (x.axis.ext - 1) * x.axis.stride
                        + (x.axis.size - 1) * x.axis.dilation + 1
                        - (x.axis.pad[1] + x.axis.pad[2]))

(* The arguments made of a list of spatial axes.  bias is the shape of the  *)
(* bias tensor.  With the option omit, stride, dilation and padding are     *)
(* left out as for the sliding-window calls.                                *)
DeconvArgs(axes, o) ==
    LET n == Len(axes)
        stride == [k \in 1..n |-> axes[k].axis.stride]
        dilation == [k \in 1..n |-> axes[k].axis.dilation]
        padding == [k \in 1..n |-> axes[k].axis.pad]
        filter0 == IF o.filter0_differs THEN 3 - o.channels ELSE o.channels
        channels == o.filter1 * (IF o.groups = 0 THEN 1 ELSE o.groups)
    IN  [input |-> Fresh(<<o.batch, o.channels>> \o [k \in 1..n |-> axes[k].axis.ext]),
         filter |-> Fresh(<<filter0, o.filter1>> \o [k \in 1..n |-> axes[k].axis.size]),
         bias |-> CASE o.bias = "row" -> <<1, channels>>
                    [] o.bias = "one" -> <<>>
                    [] o.bias = "short" -> <<1, channels + 1>>,
         border |-> o.border,
         padding |-> IF o.omit /\ AllZeroPairs(padding) THEN <<>> ELSE padding,
         stride |-> IF o.omit /\ AllOnes(stride) THEN <<>> ELSE stride,
         dilation |-> IF o.omit /\ AllOnes(dilation) THEN <<>> ELSE dilation,
         output_shape |->
             IF o.output_shape = "none" THEN <<>>
             ELSE <<IF o.output_shape = "other batch" THEN o.batch + 1 ELSE o.batch,
                    IF o.output_shape = "other channels" THEN channels + 1 ELSE channels>>
                      \o [k \in 1..n |->
                             AskedExtent(axes[k], o.omit /\ AllZeroPairs(padding))],
         groups |-> o.groups]

\* the options of a convolution call, and what they cost
ConvOptions ==
    [batch : 1..2, channels : 1..2, filter0 : 1..2, filter1 : 1..2, groups : 0..2,
     border : PoolBorders, omit : BOOLEAN, bias : {"row", "one", "short"}]
ConvOptionsCost(o) ==
    (o.batch - 1) + (o.channels - 1) + (o.filter0 - 1) + (o.filter1 - 1)
        + (IF o.groups = 1 THEN 0 ELSE 1) + (IF o.border = "constant" THEN 0 ELSE 1)
        + (IF o.omit THEN 1 ELSE 0) + (IF o.bias = "row" THEN 0 ELSE 1)

(* The arguments made of a list of spatial axes (size is the extent of the  *)
(* filter).  bias is the shape of the bias tensor.  With the option omit,   *)
(* stride, dilation and padding are left out as for the sliding-window      *)
(* calls.                                                                   *)
ConvArgs(axes, o) ==
    LET n == Len(axes)
        stride == [k \in 1..n |-> axes[k].stride]
        dilation == [k \in 1..n |-> axes[k].dilation]
        padding == [k \in 1..n |-> axes[k].pad]
    IN  [input |-> Fresh(<<o.batch, o.channels>> \o [k \in 1..n |-> axes[k].ext]),
         filter |-> Fresh(<<o.filter0, o.filter1>> \o [k \in 1..n |-> axes[k].size]),
         bias |-> CASE o.bias = "row" -> <<1, o.filter0>>
                    [] o.bias = "one" -> <<>>
                    [] o.bias = "short" -> <<1, o.filter0 + 1>>,
         border |-> o.border,
         padding |-> IF o.omit /\ AllZeroPairs(padding) THEN <<>> ELSE padding,
         stride |-> IF o.omit /\ AllOnes(stride) THEN <<>> ELSE stride,
         dilation |-> IF o.omit /\ AllOnes(dilation) THEN <<>> ELSE dilation,
         groups |-> o.groups]

\* the options of a desample call, and what they cost
DesampleOptions ==
    [omit : BOOLEAN, output_shape : {"none", "given", "other batch"},
     negative : {"none", "before", "after"}]
DesampleOptionsCost(o) ==
    (IF o.omit THEN 1 ELSE 0) + (IF o.output_shape = "none" THEN 0 ELSE 1)
        + (IF o.negative = "none" THEN 0 ELSE 1)

\* a padding pair with the amount before or after the axis made negative
SignedPair(pair, negative) ==
    CASE negative = "none" -> pair
      [] negative = "before" -> <<0 - pair[1], pair[2]>>
      [] negative = "after" -> <<pair[1], 0 - pair[2]>>

(* The arguments of a desample call made of a list of axes: index has the   *)
(* shape of input, and an output_shape that is given is the calculated one, *)
(* but for its batch entry with the option "other batch".  The padding      *)
(* amounts are signed.                                                      *)
DesampleArgs(axes, o) ==
    LET r == Len(axes)
        shape == [k \in 1..r |-> axes[k].ext]
        size == [k \in 1..r |-> axes[k].size]
        stride == [k \in 1..r |-> axes[k].stride]
        dilation == [k \in 1..r |-> axes[k].dilation]
        padding == [k \in 1..r |-> SignedPair(axes[k].pad, o.negative)]
        given == IF o.omit /\ AllZeroPairs(padding) THEN <<>> ELSE padding
        calculated == desample_calculated_output_shape(shape, size, given, stride,
                                                       dilation)
    IN  [input |-> Fresh(shape),
         index |-> Fresh(shape),
         size |-> size,
         border |-> "constant",
         padding |-> given,
         stride |-> IF o.omit /\ AllOnes(stride) THEN <<>> ELSE stride,
         dilation |-> IF o.omit /\ AllOnes(dilation) THEN <<>> ELSE dilation,
         output_shape |->
             CASE o.output_shape = "none" -> <<>>
               [] o.output_shape = "given" -> calculated
               [] o.output_shape = "other batch" ->
                      [calculated EXCEPT ![1] = @ + 1]]

-----------------------------------------------------------------------------
(* The state machine: one call at a time. *)

NoRet == Ok(<<>>, <<>>)

Init ==
    /\ pc = "idle"
    /\ op = "none"
    /\ args = <<>>
    /\ ret = NoRet
    /\ heap = <<>>

Return ==
    /\ pc = "done"
    /\ pc' = "idle"
    /\ op' = "none"
    /\ args' = <<>>
    /\ ret' = NoRet
    /\ UNCHANGED heap

Call_nnef_pad ==
    /\ pc = "idle"
    /\ \E r \in 2..MaxRank :
       \E shape \in ShapesWithin(r, MaxSize) :
       \E padding \in PaddingsWithin(r, MaxSize - Extra(shape)) \cup {<<>>} :
       \E border \in Borders :
          args' = [input |-> Fresh(shape), padding |-> padding,
                   border |-> border, value |-> Zero]
    /\ ret' = nnef_pad(args'.input, args'.padding, args'.border, args'.value)
    /\ pc' = "done"
    /\ op' = "pad"
    /\ UNCHANGED heap

NextPad == Call_nnef_pad \/ Return

Call_reduce ==
    /\ pc = "idle"
    /\ \E r \in 1..MaxReduceRank :
       \E shape \in ShapesWithin(r, MaxReduceSize) :
       \E axes \in AxesLists(r, MaxReduceSize - Extra(shape)) :
       \E kind \in ReduceKinds :
          args' = [input |-> Fresh(shape), axes |-> axes, kind |-> kind]
    /\ ret' = reduce(args'.input, args'.axes, args'.kind)
    /\ pc' = "done"
    /\ op' = "reduce"
    /\ UNCHANGED heap

NextReduce == Call_reduce \/ Return

(* nnef_max_pool and nnef_box.  The axes of the call are drawn one after    *)
(* the other, each within what the options and the axes before it leave of  *)
(* the budget; so that more than three axes can have a window, a call in    *)
(* which more than three axes depart from the plain axis may cost one unit  *)
(* more (left = -1).                                                        *)
RECURSIVE Call_pool_with(_, _, _, _, _)
Call_pool_with(axes, r, o, left, departing) ==
    IF Len(axes) < r
    THEN \E a \in AxisMenu[left + 1] :
            Call_pool_with(Append(axes, a), r, o, left - AxisCost(a),
                           IF AxisPlain(a) THEN departing ELSE departing + 1)
    ELSE /\ left >= 0 \/ departing > 3
         /\ args' = PoolArgs(axes, o)

\* the entries of the operations table for max_pool and box
pool(a) ==
    IF a.is_max_pool
    THEN nnef_max_pool(a.input, a.size, a.border, a.padding, a.stride, a.dilation)
    ELSE nnef_box(a.input, a.size, a.border, a.padding, a.stride, a.dilation, a.normalize)

Call_pool ==
    /\ pc = "idle"
    /\ \E r \in 1..MaxRank :
       \E o \in {x \in PoolOptions : ~(x.is_max_pool /\ x.normalize)
                                       /\ OptionsCost(x) <= MaxWindow} :
          Call_pool_with(<<>>, r, o, MaxWindow - OptionsCost(o), 0)
    /\ ret' = pool(args')
    /\ pc' = "done"
    /\ op' = "pool"
    /\ UNCHANGED heap

NextPool == Call_pool \/ Return

SpecPool == Init /\ [][NextPool]_vars

\* nnef_max_pool_with_index, on the arguments of the max_pool calls
Call_max_pool_with_index ==
    /\ pc = "idle"
    /\ \E r \in 1..MaxRank :
       \E o \in {x \in PoolOptions : x.is_max_pool /\ ~x.normalize
                                       /\ OptionsCost(x) <= MaxWindow} :
          Call_pool_with(<<>>, r, o, MaxWindow - OptionsCost(o), 0)
    /\ ret' = nnef_max_pool_with_index(args'.input, args'.size, args'.border,
                                       args'.padding, args'.stride, args'.dilation)
    /\ pc' = "done"
    /\ op' = "max_pool_with_index"
    /\ UNCHANGED heap

NextIndex == Call_max_pool_with_index \/ Return

(* nnef_box with normalize=True and the border 'constant' or 'ignore', on   *)
(* windows of one more unit than in the other sliding-window calls          *)
RECURSIVE Call_box_with(_, _, _, _)
Call_box_with(axes, r, o, left) ==
    IF Len(axes) < r
    THEN \E a \in AxisMenu[left] :
            Call_box_with(Append(axes, a), r, o, left - AxisCost(a))
    ELSE args' = PoolArgs(axes, o)

Call_box ==
    /\ pc = "idle"
    /\ \E r \in 1..MaxBoxRank :
       \E border \in {"constant", "ignore"} :
          Call_box_with(<<>>, r,
                        [is_max_pool |-> FALSE, normalize |-> TRUE, border |-> border,
                         omit |-> FALSE],
                        MaxWindow + 1)
    /\ ret' = pool(args')
    /\ pc' = "done"
    /\ op' = "box"
    /\ UNCHANGED heap

NextBox == Call_box \/ Return

SpecBox == Init /\ [][NextBox]_vars

SpecIndex == Init /\ [][NextIndex]_vars

(* nnef_deconv.  The spatial axes are drawn as for the sliding-window calls; *)
(* no extent asked for is negative, and without output_shape no delta is    *)
(* drawn.                                                                   *)
RECURSIVE Call_deconv_with(_, _, _, _)
Call_deconv_with(axes, n, o, left) ==
    IF Len(axes) < n
    THEN \E x \in DeconvAxisMenu[left] :
            /\ o.output_shape = "none" => x.delta = 0
            /\ AskedExtent(x, FALSE) >= 0 /\ AskedExtent(x, TRUE) >= 0
            /\ Call_deconv_with(Append(axes, x), n, o,
                                left - AxisCost(x.axis) - Abs(x.delta))
    ELSE args' = DeconvArgs(axes, o)

\* the entry of the operations table for deconv
deconv(a) ==
    nnef_deconv(a.input, a.filter, a.bias, a.border, a.padding, a.stride, a.dilation,
                a.output_shape, a.groups)

Call_deconv ==
    /\ pc = "idle"
    /\ \E n \in 0..(MaxRank - 2) :
       \E o \in {x \in DeconvOptions : DeconvOptionsCost(x) <= MaxWindow} :
          Call_deconv_with(<<>>, n, o, MaxWindow - DeconvOptionsCost(o))
    /\ ret' = deconv(args')
    /\ pc' = "done"
    /\ op' = "deconv"
    /\ UNCHANGED heap

NextDeconv == Call_deconv \/ Return

SpecDeconv == Init /\ [][NextDeconv]_vars

(* Calls on the tensor objects of a caller.  The caller owns the running   *)
(* statistics mean and variance, the variable and the value of an update,   *)
(* and the input of a box filter.                                           *)
TensorObjects == [is_parameter : BOOLEAN, requires_grad : BOOLEAN, contents : {0}]
Untracked == [is_parameter |-> FALSE, requires_grad |-> FALSE, contents |-> 0]

InitFrame ==
    /\ pc = "idle"
    /\ op = "none"
    /\ args = <<>>
    /\ ret = NoRet
    /\ \E mean \in TensorObjects, variance \in TensorObjects :
          heap = [mean |-> mean, variance |-> variance, variable |-> Untracked,
                  value |-> Untracked, input |-> Untracked]

\* momentum, in tenths: 0 and the default 0.1
Momenta == {0, 1}

Call_nnef_batch_normalization ==
    /\ pc = "idle"
    /\ heap["mean"].contents < MaxWrites /\ heap["variance"].contents < MaxWrites
    /\ \E batch \in 1..2, is_training \in BOOLEAN, momentum \in Momenta,
          refuses_grad \in BOOLEAN :
          /\ args' = [input |-> "input", input_shape |-> <<batch, 1>>, mean |-> "mean",
                      variance |-> "variance", is_training |-> is_training,
                      momentum |-> momentum, refuses_grad |-> refuses_grad]
    /\ heap' = nnef_batch_normalization(heap, args'.input_shape, args'.mean, args'.variance,
                                        args'.is_training, args'.momentum,
                                        args'.refuses_grad).heap
    /\ ret' = nnef_batch_normalization(heap, args'.input_shape, args'.mean, args'.variance,
                                       args'.is_training, args'.momentum,
                                       args'.refuses_grad).ret
    /\ pc' = "done"
    /\ op' = "batch_normalization"

Call_nnef_update ==
    /\ pc = "idle"
    /\ args' = [variable |-> "variable", value |-> "value"]
    /\ heap' = nnef_update(heap, args'.variable, args'.value).heap
    /\ ret' = nnef_update(heap, args'.variable, args'.value).ret
    /\ pc' = "done"
    /\ op' = "update"

(* nnef_box with the border 'ignore' on the input of the caller: the        *)
(* division in place, avg_pool /= avg_pool_ones, is on the tensors that     *)
(* F.avg_pool returned to _box_impl.                                        *)
Call_nnef_box_ignore ==
    /\ pc = "idle"
    /\ \E ext \in 2..3, normalize \in BOOLEAN, p \in 0..1 :
          args' = [input |-> "input", input_shape |-> <<1, 1, ext>>, size |-> <<1, 1, 2>>,
                   border |-> "ignore", padding |-> <<<<0, 0>>, <<0, 0>>, <<p, 0>>>>,
                   stride |-> <<>>, dilation |-> <<>>, normalize |-> normalize]
    /\ ret' = nnef_box(Fresh(args'.input_shape), args'.size, args'.border, args'.padding,
                       args'.stride, args'.dilation, args'.normalize)
    /\ pc' = "done"
    /\ op' = "box"
    /\ UNCHANGED heap

NextFrame ==
    \/ Call_nnef_batch_normalization
    \/ Call_nnef_update
    \/ Call_nnef_box_ignore
    \/ Return

SpecFrame == InitFrame /\ [][NextFrame]_vars

\* _expand_binary, as _binary calls it on the operands of a binary operator
Call__expand_binary ==
    /\ pc = "idle"
    /\ \E r1 \in 0..MaxReduceRank, r2 \in 0..MaxReduceRank :
       \E shape1 \in ShapesWithin(r1, MaxSize) :
       \E shape2 \in ShapesWithin(r2, MaxSize - Extra(shape1)) :
          args' = [input1 |-> Fresh(shape1), input2 |-> Fresh(shape2)]
    /\ ret' = _expand_binary(args'.input1, args'.input2)
    /\ pc' = "done"
    /\ op' = "_expand_binary"
    /\ UNCHANGED heap

NextExpand == Call__expand_binary \/ Return

SpecExpand == Init /\ [][NextExpand]_vars

\* nnef_conv; the spatial axes are drawn as for the sliding-window calls
RECURSIVE Call_conv_with(_, _, _, _)
Call_conv_with(axes, n, o, left) ==
    IF Len(axes) < n
    THEN \E a \in AxisMenu[left] :
            Call_conv_with(Append(axes, a), n, o, left - AxisCost(a))
    ELSE args' = ConvArgs(axes, o)

\* the entry of the operations table for conv
conv(a) ==
    nnef_conv(a.input, a.filter, a.bias, a.border, a.padding, a.stride, a.dilation,
              a.groups)

Call_conv ==
    /\ pc = "idle"
    /\ \E n \in 0..(MaxRank - 2) :
       \E o \in {x \in ConvOptions : ConvOptionsCost(x) <= MaxWindow} :
          Call_conv_with(<<>>, n, o, MaxWindow - ConvOptionsCost(o))
    /\ ret' = conv(args')
    /\ pc' = "done"
    /\ op' = "conv"
    /\ UNCHANGED heap

NextConv == Call_conv \/ Call_deconv \/ Return

SpecConv == Init /\ [][NextConv]_vars

\* nnef_desample; the axes are drawn as for the sliding-window calls
RECURSIVE Call_desample_with(_, _, _, _)
Call_desample_with(axes, r, o, left) ==
    IF Len(axes) < r
    THEN \E a \in AxisMenu[left] :
            Call_desample_with(Append(axes, a), r, o, left - AxisCost(a))
    ELSE args' = DesampleArgs(axes, o)

\* the entry of the operations table for desample
desample(a) ==
    nnef_desample(a.input, a.index, a.size, a.border, a.padding, a.stride, a.dilation,
                  a.output_shape)

Call_desample ==
    /\ pc = "idle"
    /\ \E r \in 2..MaxRank :
       \E o \in DesampleOptions :
          Call_desample_with(<<>>, r, o, MaxWindow - DesampleOptionsCost(o))
    /\ ret' = desample(args')
    /\ pc' = "done"
    /\ op' = "desample"
    /\ UNCHANGED heap

NextDesample == Call_desample \/ Return

SpecDesample == Init /\ [][NextDesample]_vars

(* The resolution of padding and of the spatial output size, by            *)
(* nnef_desample and by nnef_deconv, of one list of arguments: the filter   *)
(* of the deconv call has the spatial size of the window, and its padding,  *)
(* stride and dilation are those of the spatial axes.  The dilation is 1.   *)
ResolveOptions == [omit : BOOLEAN, output_shape : {"none", "scaled", "less", "more"}]
ResolveOptionsCost(o) ==
    (IF o.omit THEN 0 ELSE 1) + (IF o.output_shape \in {"none", "scaled"} THEN 0 ELSE 1)

\* the arguments made of a list of spatial axes; batch and channel are 1
ResolveArgs(axes, o) ==
    LET n == Len(axes)
        scaled == [k \in 1..n |-> axes[k].ext * axes[k].stride]
    IN  [input_shape |-> <<1, 1>> \o [k \in 1..n |-> axes[k].ext],
         size |-> <<1, 1>> \o [k \in 1..n |-> axes[k].size],
         padding |-> IF o.omit THEN <<>>
                     ELSE <<<<0, 0>>, <<0, 0>>>> \o [k \in 1..n |-> axes[k].pad],
         stride |-> <<1, 1>> \o [k \in 1..n |-> axes[k].stride],
         dilation |-> Repeat(1, n + 2),
         output_shape |->
             CASE o.output_shape = "none" -> <<>>
               [] o.output_shape = "scaled" -> <<1, 1>> \o scaled
               [] o.output_shape = "less" -> <<1, 1>> \o [k \in 1..n |-> scaled[k] - 1]
               [] o.output_shape = "more" -> <<1, 1>> \o [k \in 1..n |-> scaled[k] + 1]]

\* padding and output_shape[2:] as nnef_desample resolves them
desample_resolution(a) ==
    [padding |-> Drop(desample_padding(a.input_shape, a.size, a.padding, a.stride,
                                       a.dilation), 2),
     output_size |-> Drop(desample_output_shape(a.input_shape, a.size, a.padding, a.stride,
                                                a.dilation, a.output_shape), 2)]

\* padding and output_size as nnef_deconv resolves them
deconv_resolution(a) ==
    [padding |-> deconv_padding([shape |-> a.input_shape], [shape |-> a.size],
                                Drop(a.padding, 2), Drop(a.stride, 2), Drop(a.dilation, 2),
                                a.output_shape),
     output_size |-> deconv_output_size([shape |-> a.input_shape], [shape |-> a.size],
                                        Drop(a.padding, 2), Drop(a.stride, 2),
                                        Drop(a.dilation, 2), a.output_shape)]

RECURSIVE Call_resolve_with(_, _, _, _)
Call_resolve_with(axes, n, o, left) ==
    IF Len(axes) < n
    THEN \E a \in {b \in AxisMenu[left] : b.dilation = 1 /\ (o.omit => b.pad = <<0, 0>>)} :
            Call_resolve_with(Append(axes, a), n, o, left - AxisCost(a))
    ELSE /\ o.output_shape = "less" => \A k \in 1..n : axes[k].ext * axes[k].stride > 1
         /\ args' = ResolveArgs(axes, o)

Call_resolve ==
    /\ pc = "idle"
    /\ \E n \in 1..3 :
       \E o \in ResolveOptions :
          Call_resolve_with(<<>>, n, o, MaxWindow + 1 - ResolveOptionsCost(o))
    /\ ret' = Ok([desample |-> desample_resolution(args'),
                  deconv |-> deconv_resolution(args')], <<>>)
    /\ pc' = "done"
    /\ op' = "resolve"
    /\ UNCHANGED heap

NextResolve == Call_resolve \/ Return

SpecResolve == Init /\ [][NextResolve]_vars

(* nnef_linear_quantize, on a vector x of one or two values and on min and *)
(* max of one value each, of rank 0 or 2                                    *)
Values == (0 - 1)..MaxValue

Call_nnef_linear_quantize ==
    /\ pc = "idle"
    /\ \E n \in 1..2, bits \in 0..MaxBits, min \in Values, max \in Values,
          shape \in {<<>>, <<1, 1>>} :
       \E x \in [1..n -> Values] :
          args' = [x |-> [shape |-> <<n>>, data |-> x],
                   min |-> [shape |-> shape, data |-> <<min>>],
                   max |-> [shape |-> <<>>, data |-> <<max>>],
                   bits |-> bits]
    /\ ret' = nnef_linear_quantize(args'.x, args'.min, args'.max, args'.bits)
    /\ pc' = "done"
    /\ op' = "linear_quantize"
    /\ UNCHANGED heap

NextQuantize == Call_nnef_linear_quantize \/ Return

SpecQuantize == Init /\ [][NextQuantize]_vars

SpecReduce == Init /\ [][NextReduce]_vars

SpecPad == Init /\ [][NextPad]_vars

-----------------------------------------------------------------------------
(* Properties of nnef_pad. *)

PadCall == pc = "done" /\ op = "pad"

Positive(x) == IF x > 0 THEN x ELSE 0
Negative(x) == IF x < 0 THEN -x ELSE 0

\* one signed pair per axis, (0, 0) on axes 0 and 1, a supported border and rank
PadArgsValid ==
    /\ Rank(args.input) \in {3, 4, 5}
    /\ Len(args.padding) = Rank(args.input)
    /\ Take(args.padding, 2) = <<<<0, 0>>, <<0, 0>>>>
    /\ args.border \in {"constant", "reflect", "replicate"}

\* the fill and the crop asked for exist: no axis is cropped below extent 0
\* and a reflected border is shorter than the axis it mirrors
PadFits ==
    \A k \in 1..Rank(args.input) :
        /\ args.input.shape[k] + args.padding[k][1] + args.padding[k][2] >= 0
        /\ args.border = "reflect" =>
              /\ Positive(args.padding[k][1]) < args.input.shape[k]
              /\ Positive(args.padding[k][2]) < args.input.shape[k]

\* the (before, after) amounts of the axes 2.. as F.pad takes them: last axis first
RECURSIVE FlatPad(_, _)
FlatPad(padding, k) ==
    IF k <= 2 THEN <<>>
    ELSE <<padding[k][1], padding[k][2]>> \o FlatPad(padding, k - 1)

\* the native border fill by the positive parts of the pairs
NativeFill ==
    F_pad(args.input,
          FlatPad([k \in 1..Len(args.padding) |->
                      <<Positive(args.padding[k][1]), Positive(args.padding[k][2])>>],
                  Len(args.padding)),
          args.border, args.value).val

(* C2: for every input of rank 3, 4 or 5 and every padding list that is    *)
(* (0,0) on axes 0 and 1 and a signed pair (p,q) on each other axis,       *)
(* nnef_pad returns the native border fill by (max(p,0), max(q,0)) with    *)
(* max(-p,0) leading and max(-q,0) trailing elements removed on each axis, *)
(* so every extent of the result is input extent + p + q; when no entry is *)
(* negative the result is the native border-fill primitive applied         *)
(* directly and the slicing removes nothing.                               *)
C2_PadIsFillThenCrop ==
    (PadCall /\ PadArgsValid /\ PadFits) =>
        /\ ret.err = "none"
        /\ ret.val.shape = [k \in 1..Rank(args.input) |->
               args.input.shape[k] + args.padding[k][1] + args.padding[k][2]]
        /\ \A j \in 1..Len(ret.val.data) :
              ret.val.data[j] =
                  At(NativeFill,
                     [k \in 1..Rank(args.input) |->
                         Unravel(j - 1, ret.val.shape, Strides(ret.val.shape))[k] + Negative(args.padding[k][1])])
        /\ (\A k \in 1..Len(args.padding) :
                args.padding[k][1] >= 0 /\ args.padding[k][2] >= 0) =>
              ret.val = F_pad(args.input, FlatPad(args.padding, Len(args.padding)),
                              args.border, args.value).val

\* a call that both fills and crops, with a border that is not constant
C2_Witness ==
    /\ PadCall /\ PadArgsValid /\ PadFits
    /\ args.border = "replicate"
    /\ \E k \in 1..Len(args.padding) : args.padding[k][1] < 0 /\ args.padding[k][2] > 0
    /\ ret.err = "none"
    /\ ret.val.shape = args.input.shape
    /\ ret.val # args.input

\* the preconditions of nnef_pad, in the order the code tests them
PadViolations ==
    <<Len(args.padding) = 0,
      Rank(args.input) \notin {3, 4, 5},
      Take(args.padding, 2) # <<<<0, 0>>, <<0, 0>>>>,
      args.border \notin {"constant", "reflect", "replicate"}>>

PadFailures ==
    <<EmptyPaddingError, UnsupportedRankError, UnsupportedAxisConstraintError,
      UnsupportedBorderError>>

(* C10 as stated: nnef_pad fails with UnsupportedRankError for every input *)
(* whose rank is not 3, 4 or 5, with UnsupportedBorderError for every      *)
(* border outside {constant, reflect, replicate}, with EmptyPaddingError   *)
(* for every empty padding, rejects every padding that is not (0,0) on     *)
(* axes 0 and 1, and invokes no primitive in a failing case.               *)
C10_EachViolationItsOwnFailure ==
    PadCall =>
        /\ PadViolations[1] => ret.err = EmptyPaddingError
        /\ PadViolations[2] => ret.err = UnsupportedRankError
        /\ PadViolations[3] => ret.err # "none"
        /\ PadViolations[4] => ret.err = UnsupportedBorderError
        /\ (\E i \in 1..4 : PadViolations[i]) => ret.prims = <<>>

(* C10 amended: nnef_pad tests, in this order, empty padding, rank not in  *)
(* {3,4,5}, padding of axes 0 and 1 not (0,0), border not in {constant,    *)
(* reflect, replicate}; the call fails with the failure of the first test  *)
(* that is violated, having invoked no primitive, and with none of these   *)
(* failures when no test is violated.                                      *)
C10_FirstViolationDecides ==
    PadCall =>
        /\ \A i \in 1..4 :
              (PadViolations[i] /\ \A j \in 1..(i - 1) : ~PadViolations[j]) =>
                  ret.err = PadFailures[i] /\ ret.prims = <<>>
        /\ (\A i \in 1..4 : ~PadViolations[i]) =>
              \A i \in 1..4 : ret.err # PadFailures[i]

\* an unsupported rank together with an unsupported border: the rank decides
C10_Witness ==
    /\ PadCall
    /\ ~PadViolations[1] /\ PadViolations[2] /\ PadViolations[4]
    /\ ret.err = UnsupportedRankError
    /\ ret.prims = <<>>

-----------------------------------------------------------------------------
(* Properties of the reductions. *)

ReduceCall == pc = "done" /\ op = "reduce"

(* C6: for every reduction kind in {sum, mean, min, max, argmin, argmax}   *)
(* and every tensor, reduce with an empty axes list returns the input      *)
(* unchanged and raises no error.                                          *)
C6_EmptyAxesIsNoOp ==
    (ReduceCall /\ args.axes = <<>>) => (ret.err = "none" /\ ret.val = args.input)

\* the listed axes are, in some order, a run a, a+1, ..., a+n-1
IsRun(axes) ==
    LET listed == {axes[k] : k \in 1..Len(axes)} IN
    /\ Cardinality(listed) = Len(axes)
    /\ \A a \in listed, b \in listed : Abs(a - b) < Len(axes)

(* C7: argmin_reduce and argmax_reduce over two or more axes fail with     *)
(* NonConsecutiveAxesError exactly when the sorted axes are not a          *)
(* contiguous run, whatever the order the axes are listed in, and no       *)
(* reshape or reduction is performed before the failure.                   *)
C7_ArgReduceNeedsRun ==
    (ReduceCall /\ args.kind \in {"argmin", "argmax"} /\ Len(args.axes) >= 2) =>
        /\ (ret.err = NonConsecutiveAxesError) <=> ~IsRun(args.axes)
        /\ ret.err = NonConsecutiveAxesError => ret.prims = <<>>
        /\ IsRun(args.axes) => ret.err = "none"

\* argmax_reduce over axes [0, 2] of a rank-4 tensor
C7_Witness ==
    /\ ReduceCall /\ args.kind = "argmax"
    /\ Rank(args.input) = 4
    /\ args.axes = <<0, 2>>
    /\ ret.err = NonConsecutiveAxesError
    /\ ret.prims = <<>>

\* the shape of the input with extent 1 at every listed axis
ReducedShape ==
    [k \in 1..Rank(args.input) |->
        IF \E j \in 1..Len(args.axes) : args.axes[j] = k - 1 THEN 1
        ELSE args.input.shape[k]]

\* how many times axis a is listed
Listed(axes, a) == Cardinality({j \in 1..Len(axes) : axes[j] = a})

\* the listed axes, highest index first: an axis is listed as often as it is
\* in axes, after the axes above it
RECURSIVE DescendingFrom(_, _)
DescendingFrom(axes, a) ==
    IF a < 0 THEN <<>>
    ELSE Repeat(a, Listed(axes, a)) \o DescendingFrom(axes, a - 1)
Descending(axes) == DescendingFrom(axes, Rank(args.input) - 1)

\* the native single-axis reduction applied to the axes of a list in turn
RECURSIVE InTurn(_, _, _)
InTurn(input, axes, kind) ==
    IF Len(axes) = 0 THEN input
    ELSE InTurn(torch_reduce(input, axes[1], kind).val, Tail(axes), kind)

(* C23: sum, mean, min and max over a non-empty list of axes, and argmin    *)
(* and argmax over one axis or a contiguous run of axes, return a tensor of *)
(* the rank of the input with extent 1 at every reduced axis and the        *)
(* extent of the input at every other axis; sum, mean, min and max reduce   *)
(* the axes highest index first whatever the order of the list, so the      *)
(* result is that of the list in any other order.                           *)
C23_ReducedShapeAndOrder ==
    (/\ ReduceCall /\ Len(args.axes) >= 1
     /\ args.kind \in {"argmin", "argmax"} => (Len(args.axes) = 1 \/ IsRun(args.axes))) =>
        /\ ret.err = "none"
        /\ Shape(ret.val) = ReducedShape
        /\ args.kind \notin {"argmin", "argmax"} =>
               /\ ret.val = InTurn(args.input, Descending(args.axes), args.kind)
               /\ ret.prims = [j \in 1..Len(args.axes) |-> args.kind]

\* a sum over two axes of extent 2 listed lowest index first
C23_Witness ==
    /\ ReduceCall /\ args.kind = "sum"
    /\ args.axes = <<0, 1>>
    /\ args.input.shape = <<2, 2>>
    /\ Shape(ret.val) = <<1, 1>>
    /\ ret.val = InTurn(args.input, <<1, 0>>, "sum")
    /\ ret.val # InTurn(args.input, <<0, 1>>, "sum")

\* an argmax over a run of two axes listed highest index first
C23_ArgmaxOverRun ==
    /\ ReduceCall /\ args.kind = "argmax"
    /\ args.axes = <<2, 1>>
    /\ args.input.shape = <<1, 2, 2>>
    /\ Shape(ret.val) = <<1, 1, 1>>

-----------------------------------------------------------------------------
(* Properties of nnef_deconv. *)

DeconvCall == pc = "done" /\ op = "deconv"

\* the native transposed convolution accepts the tensors of the call
NativeAccepts ==
    /\ args.groups >= 1
    /\ args.input.shape[2] = args.filter.shape[1]
    /\ args.filter.shape[1] % args.groups = 0
    /\ \/ utils_product(args.bias) = 1
       \/ args.bias = <<1, args.filter.shape[2] * args.groups>>

\* a call that C1 is about
ShapedDeconvCall ==
    /\ DeconvCall
    /\ args.border = "constant"
    /\ Rank(args.input) \in {3, 4, 5}
    /\ Len(args.output_shape) = Rank(args.input)
    /\ args.output_shape[2] = args.filter.shape[2] * args.groups
    /\ NativeAccepts

(* C1: an nnef_deconv call with border 'constant', input rank 3, 4 or 5 and *)
(* an output_shape whose channel entry is filter.dim1 * groups returns a    *)
(* tensor of shape [input batch size, filter.dim1 * groups] followed by the *)
(* spatial entries of output_shape, for every stride, dilation and given or *)
(* defaulted padding, also when the batch entry of output_shape is not the  *)
(* input batch size.                                                        *)
C1_DeconvOutputShape ==
    ShapedDeconvCall =>
        /\ ret.err = "none"
        /\ ret.val.shape = <<args.input.shape[1], args.filter.shape[2] * args.groups>>
                               \o Drop(args.output_shape, 2)

\* a call with a stride, a crop before and another batch entry in output_shape
C1_Witness ==
    /\ ShapedDeconvCall
    /\ args.output_shape[1] # args.input.shape[1]
    /\ \E k \in 1..Len(args.padding) : args.padding[k][1] > 0
    /\ \E k \in 3..Rank(args.input) : ret.val.shape[k] >= 1 /\ args.input.shape[k] >= 2
    /\ ret.err = "none"

\* groups after the resolution of the group count 0 in nnef_deconv
DeconvGroups ==
    IF args.groups # 0 THEN args.groups
    ELSE IF Len(args.output_shape) # 0 THEN args.output_shape[2]
    ELSE args.filter.shape[1]

(* C11: a deconv call (border 'constant', rank 3, 4 or 5) whose            *)
(* output_shape has a channel entry other than filter.dim1 * groups fails   *)
(* with ShapeMismatchError, a validation error like the others of the       *)
(* operator, and the transposed convolution is not invoked.                 *)
C11_ChannelMismatchIsShapeMismatchError ==
    (/\ DeconvCall
     /\ args.border = "constant"
     /\ Rank(args.input) \in {3, 4, 5}
     /\ Len(args.output_shape) # 0
     /\ args.output_shape[2] # args.filter.shape[2] * DeconvGroups)
        => /\ ret.err = ShapeMismatchError
           /\ ret.err \in NNEFToolsExceptions
           /\ \A k \in 1..Len(ret.prims) : ret.prims[k] # "conv_transpose"

\* a deconv call with the group count 0 and an output_shape, that gets as
\* far as the test of the channels
PlanewiseShapedDeconvCall ==
    /\ DeconvCall
    /\ args.border = "constant"
    /\ Rank(args.input) \in {3, 4, 5}
    /\ args.groups = 0
    /\ Len(args.output_shape) # 0
    /\ args.output_shape[2] > 0

(* C25: in a deconv call with the group count 0 and an output_shape, the    *)
(* group count is the channel entry of output_shape, so the test of that    *)
(* entry against filter.dim1 * groups passes exactly when filter.dim1 is 1: *)
(* with a filter whose second dimension is more than 1 the call fails at    *)
(* that test, before any primitive.                                         *)
C25_PlanewiseShapedNeedsUnitFilterDim1 ==
    PlanewiseShapedDeconvCall =>
        /\ (ret.err = AssertionError) <=> (args.filter.shape[2] # 1)
        /\ args.filter.shape[2] > 1 => ret.prims = <<>>

\* the call fails with a filter of second dimension 2
C25_Witness ==
    /\ PlanewiseShapedDeconvCall
    /\ args.filter.shape[2] = 2
    /\ args.output_shape[2] = 2
    /\ ret.err = AssertionError

\* the call passes the test with a filter of second dimension 1, for two
\* channels asked
C25_UnitFilterPasses ==
    /\ PlanewiseShapedDeconvCall
    /\ args.filter.shape[2] = 1
    /\ args.output_shape[2] = 2
    /\ ret.err = "none"

\* the stride, dilation and given padding of spatial axis k of a deconv call
DeconvStride(k) == IF Len(args.stride) = 0 THEN 1 ELSE args.stride[k]
DeconvDilation(k) == IF Len(args.dilation) = 0 THEN 1 ELSE args.dilation[k]

\* the extent of spatial axis k of the transposed convolution before the crop
Uncropped(k) ==
    (args.input.shape[k + 2] - 1) * DeconvStride(k)
        + (args.filter.shape[k + 2] - 1) * DeconvDilation(k) + 1

\* the target extent of spatial axis k of a deconv call without output_shape
Target(k) ==
    IF Len(args.padding) = 0 THEN args.input.shape[k + 2] * DeconvStride(k)
    ELSE Uncropped(k) - (args.padding[k][1] + args.padding[k][2])

\* the padding before of spatial axis k: as given, or the "same" padding
\* against the target
PaddingBefore(k) ==
    IF Len(args.padding) # 0 THEN args.padding[k][1]
    ELSE shape_inference_same_padding(
             <<Target(k)>>, <<args.filter.shape[k + 2]>>, <<DeconvStride(k)>>,
             <<DeconvDilation(k)>>)[1][1]

\* a deconv call without output_shape on tensors the native primitive accepts
UnshapedDeconvCall ==
    /\ DeconvCall
    /\ args.border = "constant"
    /\ Rank(args.input) \in {3, 4, 5}
    /\ Len(args.output_shape) = 0
    /\ args.input.shape[2] = args.filter.shape[1]
    /\ args.filter.shape[1] % DeconvGroups = 0
    /\ \/ utils_product(args.bias) = 1
       \/ args.bias = <<1, args.filter.shape[2] * DeconvGroups>>

\* the shape of the transposed convolution before the crop
UncroppedShape ==
    <<args.input.shape[1], args.filter.shape[2] * DeconvGroups>>
        \o [k \in 1..(Rank(args.input) - 2) |-> Uncropped(k)]

\* position idx of the result, moved by the padding before on the spatial axes
MovedByPaddingBefore(idx) ==
    [k \in 1..Len(idx) |-> IF k <= 2 THEN idx[k] ELSE idx[k] + PaddingBefore(k - 2)]

(* C20: a deconv call without output_shape resolves the target extent of    *)
(* each spatial axis to input extent * stride when padding is unset, the    *)
(* padding being the "same" padding against that target, and to             *)
(* (input extent - 1) * stride + (filter extent - 1) * dilation + 1         *)
(* - (p + q) when the padding (p, q) is given; the result has the target    *)
(* extents and is the transposed convolution cropped by the padding before  *)
(* at the start of each axis, so that with a given padding the crop is      *)
(* exactly (p, q).                                                          *)
C20_DeconvTargetWithoutOutputShape ==
    UnshapedDeconvCall =>
        /\ ret.err = "none"
        /\ ret.val.shape = Take(UncroppedShape, 2)
                               \o [k \in 1..(Rank(args.input) - 2) |-> Target(k)]
        /\ \A j \in 1..Len(ret.val.data) :
              IF \A k \in 1..Rank(args.input) :
                     MovedByPaddingBefore(
                         Unravel(j - 1, ret.val.shape, Strides(ret.val.shape)))[k]
                         < UncroppedShape[k]
              THEN /\ ret.val.data[j].tag = "conv_transpose"
                   /\ ret.val.data[j].i =
                          Ravel(MovedByPaddingBefore(
                                    Unravel(j - 1, ret.val.shape, Strides(ret.val.shape))),
                                UncroppedShape) + 1
              ELSE ret.val.data[j] = Zero

\* such a call with a padding before on an axis that keeps elements
C20_Witness ==
    /\ UnshapedDeconvCall
    /\ \E k \in 1..Len(args.padding) : args.padding[k][1] >= 1
    /\ Len(ret.val.data) >= 1
    /\ ret.err = "none"

-----------------------------------------------------------------------------
(* Properties of nnef_conv, and of nnef_conv and nnef_deconv together. *)

ConvCall == pc = "done" /\ op = "conv"

\* the native convolution, or transposed convolution, has been invoked
NativeInvoked == \E k \in 1..Len(ret.prims) : ret.prims[k] \in {"conv", "conv_transpose"}

(* C14: the group count 0 is resolved before any use into a positive        *)
(* integer: in conv into the number of input channels; in deconv into the   *)
(* channel entry of output_shape when output_shape is given and otherwise   *)
(* into the first dimension of the filter; a group count other than 0 is    *)
(* passed to the native primitive as it is.                                 *)
C14_GroupsResolved ==
    /\ (ConvCall /\ NativeInvoked) =>
          /\ ret.groups = (IF args.groups = 0 THEN args.input.shape[2] ELSE args.groups)
          /\ ret.groups > 0
    /\ (DeconvCall /\ NativeInvoked) =>
          /\ ret.groups = (IF args.groups # 0 THEN args.groups
                           ELSE IF Len(args.output_shape) # 0 THEN args.output_shape[2]
                           ELSE args.filter.shape[1])
          /\ ret.groups > 0

\* a convolution with the group count 0 on two input channels that succeeds
C14_Witness ==
    /\ ConvCall /\ NativeInvoked
    /\ args.groups = 0 /\ args.input.shape[2] = 2
    /\ ret.err = "none"

\* the native convolution accepts the tensors of the call
ConvNativeAccepts ==
    /\ args.groups >= 0
    /\ args.input.shape[2]
           = args.filter.shape[2] * (IF args.groups = 0 THEN args.input.shape[2]
                                     ELSE args.groups)
    /\ args.filter.shape[1] % (IF args.groups = 0 THEN args.input.shape[2]
                               ELSE args.groups) = 0
    /\ \/ utils_product(args.bias) = 1
       \/ args.bias = <<1, args.filter.shape[1]>>

\* a convolution without padding, on tensors that the native convolution accepts
SamePaddedConvCall ==
    /\ ConvCall
    /\ args.padding = <<>>
    /\ Rank(args.input) \in {3, 4, 5}
    /\ args.border = "constant"
    /\ ConvNativeAccepts

\* the stride of spatial axis k of the call, with the default
ConvStride(k) == IF Len(args.stride) = 0 THEN 1 ELSE args.stride[k]

(* C16: nnef_conv without padding pads the input by the "same" padding      *)
(* through nnef_pad and calls the native convolution without padding: the   *)
(* result has the shape [input batch, filter.dim0] followed by              *)
(* ceil(input extent / stride) on each spatial axis, for every filter size, *)
(* stride and dilation; with stride 1 the spatial shape is that of the      *)
(* input.                                                                   *)
C16_ConvSamePaddingShape ==
    SamePaddedConvCall =>
        /\ ret.err = "none"
        /\ ret.prims[Len(ret.prims)] = "conv"
        /\ \A k \in 1..(Len(ret.prims) - 1) : ret.prims[k] # "conv"
        /\ ret.val.shape =
               <<args.input.shape[1], args.filter.shape[1]>>
                   \o [k \in 1..(Rank(args.input) - 2) |->
                          (args.input.shape[k + 2] + ConvStride(k) - 1) \div ConvStride(k)]

\* such a call with a filter wider than 1 on an axis of extent 2 or more
C16_Witness ==
    /\ SamePaddedConvCall
    /\ \E k \in 3..Rank(args.input) : args.filter.shape[k] >= 2 /\ args.input.shape[k] >= 2
    /\ \E k \in 1..Len(ret.prims) : ret.prims[k] = "pad"
    /\ ret.err = "none"

-----------------------------------------------------------------------------
(* Properties of the calls on the tensor objects of a caller. *)

(* C9: no operator mutates a tensor passed in by its caller: over any       *)
(* sequence of calls of update, batch_normalization (training or inference) *)
(* and box with the border 'ignore', the contents and the attributes of     *)
(* every tensor object of the caller stay what they were.                   *)
C9_ArgumentsUntouched == [][heap' = heap]_vars

-----------------------------------------------------------------------------
(* Properties of the sliding-window operators. *)

PoolCall == pc = "done" /\ op = "pool"

\* the padding, stride and dilation of the call with the defaults filled in
PoolParams ==
    _evaluate_max_pool_or_box_params(args.input.shape, args.size, args.padding,
                                     args.stride, args.dilation)

\* the Active-Axis Set of the call (axes counted from 1)
ActiveSet ==
    {k \in 1..Rank(args.input) :
        \/ args.size[k] # 1 \/ PoolParams.padding[k] # <<0, 0>>
        \/ PoolParams.stride[k] # 1 \/ PoolParams.dilation[k] # 1}

\* what the native primitive is called with when it gets the call as it is
DirectArgs ==
    [input |-> args.input, size |-> args.size, padding |-> PoolParams.padding,
     stride |-> PoolParams.stride, dilation |-> PoolParams.dilation]
NativeDirect == pool_impl(DirectArgs, args.border, args.normalize, args.is_max_pool)

DirectCall ==
    /\ PoolCall
    /\ Rank(args.input) \in {3, 4, 5}
    /\ 1 \notin ActiveSet /\ 2 \notin ActiveSet
    /\ Cardinality(ActiveSet) \in 1..3

(* C3: when the input rank is 3, 4 or 5, axes 0 and 1 are inactive and 1 to *)
(* 3 of the other axes are active, nnef_box and nnef_max_pool apply no      *)
(* permute, reshape, unsqueeze or squeeze of their own: the native          *)
(* primitive gets the original tensor with the size, padding, stride and    *)
(* dilation lists of the call (defaults filled in), and what it returns or  *)
(* raises is the outcome of the call, with no primitive before or after it. *)
C3_DirectSupportIsPassThrough ==
    DirectCall =>
        /\ ret.impl = <<DirectArgs>>
        /\ ret.transform.perm = <<>>
        /\ ret.err = NativeDirect.err
        /\ ret.prims = NativeDirect.prims
        /\ ret.val = NativeDirect.val
        /\ \A k \in 1..Len(ret.prims) :
              ret.prims[k] \notin {"permute", "unsqueeze", "squeeze"}

\* a rank-5 call with three active spatial axes that returns a tensor
C3_Witness ==
    /\ DirectCall
    /\ Rank(args.input) = 5
    /\ ActiveSet = {3, 4, 5}
    /\ ret.err = "none"
    /\ Rank(ret.val) = 5

RearrangedCall ==
    /\ PoolCall
    /\ Rank(args.input) >= 3
    /\ 1 \in ActiveSet \/ 2 \in ActiveSet \/ Rank(args.input) > 5
    /\ Cardinality(ActiveSet) \in 1..3

\* the extent a window leaves of axis k
WindowExtent(k) ==
    (args.input.shape[k] + PoolParams.padding[k][1] + PoolParams.padding[k][2]
        - ((args.size[k] - 1) * PoolParams.dilation[k] + 1)) \div PoolParams.stride[k] + 1

\* the elements of the input that a computed element was computed from
InputsOf(e) ==
    LET w == IF e.tag \in {"mul", "div"} THEN e.sub[1] ELSE e
    IN  {w.sub[k].i : k \in {x \in 1..Len(w.sub) : w.sub[x].tag = "in"}}

\* the elements of the input under the window of output position idx, each
\* axis with its own size, padding, stride and dilation
RECURSIVE OffsetsUnder(_, _, _)
OffsetsUnder(idx, k, offset) ==
    IF k > Rank(args.input) THEN {offset + 1}
    ELSE UNION {OffsetsUnder(idx, k + 1, offset * args.input.shape[k] + pos) :
                pos \in {idx[k] * PoolParams.stride[k] + w * PoolParams.dilation[k]
                             - PoolParams.padding[k][1] : w \in 0..(args.size[k] - 1)}
                        \cap 0..(args.input.shape[k] - 1)}

\* every element of the result is computed from the window at its position
WindowsOnOwnAxes ==
    \A j \in 1..Len(ret.val.data) :
        InputsOf(ret.val.data[j]) =
            OffsetsUnder(Unravel(j - 1, ret.val.shape, Strides(ret.val.shape)), 1, 0)

(* C4: when rearrangement is needed (rank >= 3 with axis 0 or 1 active, or  *)
(* rank > 5; 1 to 3 active axes), the permutation lists the inactive axes   *)
(* before the active ones, each group in its original order, and the        *)
(* inverse permutation undoes it; the native primitive gets a tensor of     *)
(* shape [product of the inactive extents, 1, active extents...] and, after *)
(* (1, 1), the size, padding, stride and dilation of the active axes in     *)
(* that order; the result has the input's extent on every inactive axis and *)
(* the window-output extent on every active one, and each of its elements   *)
(* is computed from the window that the parameters of its own axes select.  *)
C4_RearrangeAndRestore ==
    RearrangedCall =>
        LET r == Rank(args.input)
            t == ret.transform
            n == Cardinality(ActiveSet)
            c == ret.impl[1]
        IN  /\ Len(t.perm) = r /\ {t.perm[k] : k \in 1..r} = 0..(r - 1)
            /\ \A i \in 1..r : \A j \in (i + 1)..r :
                  /\ ~((t.perm[i] + 1) \in ActiveSet /\ (t.perm[j] + 1) \notin ActiveSet)
                  /\ ((t.perm[i] + 1) \in ActiveSet <=> (t.perm[j] + 1) \in ActiveSet)
                         => t.perm[i] < t.perm[j]
            /\ Len(t.perm_inv) = r
            /\ \A k \in 1..r : /\ t.perm[t.perm_inv[k] + 1] = k - 1
                               /\ t.perm_inv[t.perm[k] + 1] = k - 1
            /\ Len(ret.impl) = 1
            /\ Take(ret.prims, 2) = <<"permute", "reshape">>
            /\ c.input.shape =
                   <<utils_product([k \in 1..(r - n) |-> args.input.shape[t.perm[k] + 1]]), 1>>
                       \o [k \in 1..n |-> args.input.shape[t.perm[r - n + k] + 1]]
            /\ c.size = <<1, 1>> \o [k \in 1..n |-> args.size[t.perm[r - n + k] + 1]]
            /\ c.padding = <<<<0, 0>>, <<0, 0>>>>
                               \o [k \in 1..n |-> PoolParams.padding[t.perm[r - n + k] + 1]]
            /\ c.stride = <<1, 1>> \o [k \in 1..n |-> PoolParams.stride[t.perm[r - n + k] + 1]]
            /\ c.dilation = <<1, 1>>
                                \o [k \in 1..n |-> PoolParams.dilation[t.perm[r - n + k] + 1]]
            /\ ret.err = "none" =>
                  /\ Last(ret.prims, 2) = <<"reshape", "permute">>
                  /\ ret.val.shape = [k \in 1..r |-> IF k \in ActiveSet THEN WindowExtent(k)
                                                     ELSE args.input.shape[k]]
                  /\ args.border \in {"constant", "ignore"} => WindowsOnOwnAxes

\* a rank-6 call with axis 0 and a later axis active, an inactive axis of
\* extent above 1 between them, that returns a tensor
C4_Witness ==
    /\ RearrangedCall
    /\ Rank(args.input) = 6
    /\ 1 \in ActiveSet
    /\ \E k \in 3..6 : k \in ActiveSet /\ \E i \in 2..(k - 1) :
           i \notin ActiveSet /\ args.input.shape[i] > 1
    /\ ret.err = "none"

(* C5: an axis is active iff its size is not 1 or its padding is not (0, 0) *)
(* or its stride is not 1 or its dilation is not 1, defaults filled in; a   *)
(* sliding-window call with more than 3 active axes fails with              *)
(* TooManyActiveAxesError, returns nothing and invokes no primitive, and a  *)
(* call with at most 3 active axes never fails with that error.             *)
C5_MoreThanThreeActiveAxesFail ==
    PoolCall =>
        /\ Cardinality(ActiveSet) > 3 =>
              ret.err = TooManyActiveAxesError /\ ret.val = <<>> /\ ret.prims = <<>>
        /\ Cardinality(ActiveSet) <= 3 => ret.err # TooManyActiveAxesError

\* a box call with exactly four active axes, two of them by the stride alone
C5_Witness ==
    /\ PoolCall
    /\ Cardinality(ActiveSet) = 4
    /\ ret.err = TooManyActiveAxesError
    /\ Cardinality({k \in ActiveSet : args.size[k] = 1
                       /\ PoolParams.padding[k] = <<0, 0>>}) >= 2

\* the call got as far as _max_pool_impl or _box_impl
ReachesNative == PoolCall /\ ret.impl # <<>>

\* the list of arguments is one that _box_impl and nnef_pad take
Handable(c) ==
    /\ Rank(c.input) \in {3, 4, 5}
    /\ Len(c.size) = Rank(c.input) /\ Len(c.padding) = Rank(c.input)
    /\ Len(c.stride) = Rank(c.input) /\ Len(c.dilation) = Rank(c.input)
    /\ Take(c.size, 2) = <<1, 1>> /\ Take(c.stride, 2) = <<1, 1>>
    /\ Take(c.dilation, 2) = <<1, 1>>
    /\ Take(c.padding, 2) = <<<<0, 0>>, <<0, 0>>>>

(* C24: whenever _box_or_max_pool calls _max_pool_impl or _box_impl (the    *)
(* input has rank 1 or more and 1 to 3 axes are active), the tensor handed  *)
(* over has rank 3, 4 or 5, the lists have its rank, and size, stride and   *)
(* dilation are 1 and padding (0, 0) on its first two axes; the assertions  *)
(* of _box_impl and the rank and batch/channel-padding tests of nnef_pad do *)
(* not fail.  The call is made exactly when 1 to 3 axes are active.         *)
C24_NativeStepGetsSupportedArguments ==
    /\ ReachesNative =>
          /\ Len(ret.impl) = 1
          /\ Handable(ret.impl[1])
          /\ ret.err \notin {AssertionError, UnsupportedRankError,
                             UnsupportedAxisConstraintError, EmptyPaddingError}
    /\ PoolCall => (ReachesNative <=> Cardinality(ActiveSet) \in 1..3)

\* a call on a rank-6 input with axis 0 active: the tensor handed over has
\* two axes and the active ones
C24_Witness ==
    /\ ReachesNative
    /\ Rank(args.input) = 6
    /\ 1 \in ActiveSet
    /\ Rank(ret.impl[1].input) = 2 + Cardinality(ActiveSet)
    /\ ret.err = "none"

\* the validation failures of the operators
ValidationFailures ==
    {UnsupportedRankError, UnsupportedBorderError, UnsupportedAxisConstraintError,
     TooManyActiveAxesError, NonConsecutiveAxesError, EmptyPaddingError,
     DilationUnsupportedError}

(* C8: every validation failure of an operator is raised before any backend *)
(* array primitive has been invoked in the call; the non-unit-dilation      *)
(* failure of box is raised before the input is permuted, reshaped or       *)
(* unsqueezed.                                                              *)
C8_FailuresBeforePrimitives ==
    (pc = "done" /\ ret.err \in ValidationFailures) => ret.prims = <<>>

-----------------------------------------------------------------------------
(* Properties of max_pool_with_index. *)

IndexCall == pc = "done" /\ op = "max_pool_with_index"

\* the failures by which a sliding-window call is rejected for its axes
Rejections ==
    {UnsupportedRankError, UnsupportedAxisConstraintError, TooManyActiveAxesError}

(* C12: the sliding-window generalization holds in the mode maxWithIndex as *)
(* in the modes max and box: a max_pool_with_index call with at most 3      *)
(* active axes is processed, whatever the rank of the input and whichever   *)
(* axes are active, and not rejected for its rank or its active axes.       *)
C12_IndexModeIsGeneralized ==
    (IndexCall /\ Cardinality(ActiveSet) <= 3) => ret.err \notin Rejections

-----------------------------------------------------------------------------
(* Properties of the helpers of the binary operators. *)

ExpandCall == pc = "done" /\ op = "_expand_binary"

\* operand x is returned as y, with size-1 axes added on the left up to rank r
LeftAligned(x, y, r) ==
    /\ y.shape = Repeat(1, r - Rank(x)) \o x.shape
    /\ y.data = x.data

(* C13: _expand_binary brings both operands to the higher of the two ranks  *)
(* by adding size-1 axes on the left of the shape of the lower-rank operand *)
(* ((1, ..., 1) + shape), leaves the shape of the higher-rank operand as it *)
(* is, and keeps the elements of both and their order.                      *)
C13_ExpandBinaryAddsAxesOnTheLeft ==
    ExpandCall =>
        /\ ret.err = "none"
        /\ LeftAligned(args.input1, ret.val[1],
                       Max2(Rank(args.input1), Rank(args.input2)))
        /\ LeftAligned(args.input2, ret.val[2],
                       Max2(Rank(args.input1), Rank(args.input2)))

-----------------------------------------------------------------------------
(* Properties of nnef_desample. *)

DesampleCall == pc = "done" /\ op = "desample"

\* size, padding, stride and dilation as given are trivial on axes 0 and 1
TrivialOnFirstTwoAxes ==
    /\ Take(args.size, 2) = <<1, 1>>
    /\ Len(args.padding) # 0 => Take(args.padding, 2) = <<<<0, 0>>, <<0, 0>>>>
    /\ Len(args.stride) # 0 => Take(args.stride, 2) = <<1, 1>>
    /\ Len(args.dilation) # 0 => Take(args.dilation, 2) = <<1, 1>>

(* C15: a desample call (rank 3, 4 or 5) fails with                         *)
(* UnsupportedAxisConstraintError whenever size, padding, stride or         *)
(* dilation is not trivial on axis 0 or 1, and only then: parameters that   *)
(* are trivial on axes 0 and 1 pass the validation, whatever their values   *)
(* on the spatial axes.                                                     *)
C15_DesampleRestrictsFirstTwoAxesOnly ==
    (DesampleCall /\ Rank(args.input) \in {3, 4, 5}) =>
        /\ ~TrivialOnFirstTwoAxes => ret.err = UnsupportedAxisConstraintError
        /\ TrivialOnFirstTwoAxes => ret.err \notin NNEFToolsExceptions

\* the call passes the five tests at the top of nnef_desample
DesamplePassesValidation ==
    /\ Rank(args.input) \in {3, 4, 5}
    /\ TrivialOnFirstTwoAxes
    /\ AllOnes(args.dilation)

\* the output shape the call resolves: output_shape with the batch size of
\* the input when it is given, and the calculated shape otherwise
ResolvedOutputShape ==
    IF Len(args.output_shape) # 0
    THEN [args.output_shape EXCEPT ![1] = args.input.shape[1]]
    ELSE desample_calculated_output_shape(
             args.input.shape, args.size, args.padding,
             IF Len(args.stride) = 0 THEN Repeat(1, Rank(args.input)) ELSE args.stride,
             Repeat(1, Rank(args.input)))

\* some padding amount of the call is negative
NegativePadding ==
    \E k \in 1..Len(args.padding) : args.padding[k][1] < 0 \/ args.padding[k][2] < 0

(* C21: a desample call that passes the validation, whatever the signs of   *)
(* its padding amounts, returns a tensor of exactly the resolved output     *)
(* shape: the slice [p, p + s) lies within the unpooled tensor of extent    *)
(* s + p + q on every axis, so neither the unpooling nor the slice fails.   *)
C21_DesampleResultHasResolvedShape ==
    (DesampleCall /\ DesamplePassesValidation) =>
        /\ ret.err = "none"
        /\ Shape(ret.val) = ResolvedOutputShape

\* the same for the calls whose padding amounts are all non-negative and
\* whose resolved output shape is positive
C21_HoldsWithoutNegativePadding ==
    (/\ DesampleCall /\ DesamplePassesValidation /\ ~NegativePadding
     /\ \A k \in 1..Len(ResolvedOutputShape) : ResolvedOutputShape[k] > 0) =>
        /\ ret.err = "none"
        /\ Shape(ret.val) = ResolvedOutputShape

\* a call with a negative padding amount after a spatial axis, and nothing
\* else unusual, fails in the slice
C21_NegativeAfterFails ==
    (/\ DesampleCall /\ DesamplePassesValidation
     /\ Len(args.output_shape) = 0
     /\ args.padding = <<<<0, 0>>, <<0, 0>>, <<0, -1>>>>) =>
        ret.err = RuntimeError /\ ret.prims = <<"max_unpool", "narrow", "narrow", "narrow">>

-----------------------------------------------------------------------------
(* Properties of the resolution of padding and output size. *)

ResolveCall == pc = "done" /\ op = "resolve"

(* C22: on the same input shape, window, stride, padding and output_shape,  *)
(* nnef_desample resolves the padding and the spatial output size that      *)
(* nnef_deconv resolves, whether or not padding and output_shape are given: *)
(* with padding unset and output_shape given, both take the same-padding    *)
(* of the spatial size of output_shape.                                     *)
C22_DesampleResolvesAsDeconv ==
    ResolveCall => ret.val.desample = ret.val.deconv

\* the two agree on the output size always, and on the padding in the three
\* other combinations
C22_AgreeButForDefaultPaddingOfGivenShape ==
    ResolveCall =>
        /\ ret.val.desample.output_size = ret.val.deconv.output_size
        /\ (Len(args.padding) # 0 \/ Len(args.output_shape) = 0) =>
               ret.val.desample.padding = ret.val.deconv.padding

\* window 2 and stride 2 on an input of extent 1, asked for an output of
\* extent 1: desample pads as for the extent 2, deconv as for the extent 1
C22_DefaultPaddingOfGivenShapeDiffers ==
    (/\ ResolveCall /\ Len(args.padding) = 0
     /\ args.input_shape = <<1, 1, 1>> /\ args.size = <<1, 1, 2>>
     /\ args.stride = <<1, 1, 2>> /\ args.output_shape = <<1, 1, 1>>) =>
        /\ ret.val.desample.padding = <<<<0, 0>>>>
        /\ ret.val.deconv.padding = <<<<0, 1>>>>

-----------------------------------------------------------------------------
(* Properties of the normalized box filter. *)

BoxCall == pc = "done" /\ op = "box"

\* a box call with dilation 1 whose windows lie inside the input
UnpaddedBoxCall ==
    /\ BoxCall
    /\ args.border = "constant"
    /\ AllZeroPairs(PoolParams.padding)
    /\ AllOnes(PoolParams.dilation)
    /\ \A k \in 1..Rank(args.input) : args.size[k] <= args.input.shape[k]
    /\ Cardinality(ActiveSet) <= 3

(* element e is the mean of the elements of the input at the offsets in    *)
(* window: an average over exactly these elements, or the one element of    *)
(* the window itself                                                        *)
IsMeanOf(e, window) ==
    \/ /\ e.tag = "avg_pool"
       /\ Len(e.sub) = Cardinality(window)
       /\ \A k \in 1..Len(e.sub) : e.sub[k].tag = "in"
       /\ {e.sub[k].i : k \in 1..Len(e.sub)} = window
    \/ /\ e.tag = "in"
       /\ window = {e.i}

(* C17: box with normalize=True, dilation 1 and windows that need no        *)
(* padding returns at each output position the mean of the elements of the  *)
(* input in the window of that position, and the extent of each axis is     *)
(* floor((input extent - size) / stride) + 1.                               *)
C17_BoxIsWindowMean ==
    UnpaddedBoxCall =>
        /\ ret.err = "none"
        /\ ret.val.shape =
               [k \in 1..Rank(args.input) |->
                   (args.input.shape[k] - args.size[k]) \div PoolParams.stride[k] + 1]
        /\ \A j \in 1..Len(ret.val.data) :
              /\ IsMeanOf(ret.val.data[j],
                          OffsetsUnder(Unravel(j - 1, ret.val.shape,
                                               Strides(ret.val.shape)), 1, 0))
              /\ Cardinality(OffsetsUnder(Unravel(j - 1, ret.val.shape,
                                                  Strides(ret.val.shape)), 1, 0))
                     = utils_product(args.size)

\* such a call with windows of 2 elements at the stride 2 on an axis
C17_Witness ==
    /\ UnpaddedBoxCall
    /\ \E k \in 1..Rank(args.input) :
          /\ args.size[k] = 2 /\ PoolParams.stride[k] = 2
          /\ args.input.shape[k] >= 2
    /\ ret.err = "none"

-----------------------------------------------------------------------------
(* Properties of nnef_linear_quantize. *)

QuantizeCall == pc = "done" /\ op = "linear_quantize"

\* the value of min and of max, and the number of steps 2^bits - 1
QMin == args.min.data[1]
QMax == args.max.data[1]
QSteps == 2 ^ args.bits - 1

\* x clamped to [min, max]
Clamped(x) == IF x < QMin THEN QMin ELSE IF x > QMax THEN QMax ELSE x

\* level k is an integer nearest to (clamp(x) - min) / (max - min) * steps
NearestLevel(k, x) == 2 * Abs(k * (QMax - QMin) - (Clamped(x) - QMin) * QSteps) <= QMax - QMin

\* the quotient e is min + k * (max - min) / steps
AtLevel(e, k) == e.den # 0 /\ e.num * QSteps = (QMin * QSteps + k * (QMax - QMin)) * e.den

(* C18: for min < max and bits >= 1, every element of the result of         *)
(* nnef_linear_quantize is min + k * (max - min) / (2^bits - 1) for an      *)
(* integer k in 0..2^bits - 1 nearest to                                    *)
(* (clamp(x, min, max) - min) / (max - min) * (2^bits - 1), and so lies in  *)
(* [min, max].                                                              *)
C18_QuantizeToNearestLevel ==
    (QuantizeCall /\ QMin < QMax /\ args.bits >= 1) =>
        /\ ret.err = "none"
        /\ Len(ret.val.data) = Len(args.x.data)
        /\ \A j \in 1..Len(ret.val.data) :
              /\ \E k \in 0..QSteps : /\ AtLevel(ret.val.data[j], k)
                                      /\ NearestLevel(k, args.x.data[j])
              /\ ret.val.data[j].den > 0
              /\ QMin * ret.val.data[j].den <= ret.val.data[j].num
              /\ ret.val.data[j].num <= QMax * ret.val.data[j].den

\* x = 0.5 between min = 0 and max = 1 (here 1 between 0 and 2) at 2 bits gives 2/3
C18_Witness ==
    /\ QuantizeCall /\ QMin = 0 /\ QMax = 2 /\ args.bits = 2
    /\ args.x.data = <<0, 1>>
    /\ ret.val.data[1].num = 0
    /\ 3 * ret.val.data[2].num = 4 * ret.val.data[2].den

\* a normalized box call with the border 'ignore', dilation 1 and windows
\* that fit into the padded input
IgnoreBoxCall ==
    /\ BoxCall
    /\ args.border = "ignore"
    /\ AllOnes(PoolParams.dilation)
    /\ \A k \in 1..Rank(args.input) :
          args.size[k] <= args.input.shape[k] + PoolParams.padding[k][1]
                              + PoolParams.padding[k][2]
    /\ Cardinality(ActiveSet) <= 3

\* the number of entries of the list es that are the element x
CountOf(es, x) == Cardinality({k \in 1..Len(es) : es[k] = x})

(* element e is the sum of the elements of the input at the offsets in      *)
(* window divided by their number: the average over the padded window       *)
(* (elements of the input and zeros) divided by the average of the ones     *)
(* over the same window (a one per element of the input, zeros elsewhere),  *)
(* or, for a call without an active axis, the one element of the window     *)
IsSumOverCount(e, window) ==
    \/ /\ e.tag = "div"
       /\ e.sub[1].tag = "avg_pool" /\ e.sub[2].tag = "avg_pool"
       /\ Len(e.sub[1].sub) = Len(e.sub[2].sub)
       /\ \A k \in 1..Len(e.sub[1].sub) : e.sub[1].sub[k].tag = "in" \/ e.sub[1].sub[k] = Zero
       /\ {e.sub[1].sub[k].i : k \in {x \in 1..Len(e.sub[1].sub) : e.sub[1].sub[x].tag = "in"}}
              = window
       /\ Len(e.sub[1].sub) - CountOf(e.sub[1].sub, Zero) = Cardinality(window)
       /\ \A k \in 1..Len(e.sub[2].sub) : e.sub[2].sub[k] \in {OneElt, Zero}
       /\ CountOf(e.sub[2].sub, OneElt) = Cardinality(window)
    \/ /\ e.tag = "in"
       /\ window = {e.i}

\* element e is 0 divided by 1: the average of a window of zeros, divided by one
IsZeroOverOne(e) ==
    /\ e.tag = "div"
    /\ e.sub[1].tag = "avg_pool"
    /\ \A k \in 1..Len(e.sub[1].sub) : e.sub[1].sub[k] = Zero
    /\ e.sub[2] = OneElt

\* the elements of the input under the window of element j of the result
WindowOf(j) == OffsetsUnder(Unravel(j - 1, ret.val.shape, Strides(ret.val.shape)), 1, 0)

(* C19: box with the border 'ignore' and normalize=True returns at every    *)
(* output position the sum of the elements of the input inside the window   *)
(* divided by the number of those elements; for a window that covers        *)
(* padding only the count is replaced by 1, nothing is divided by zero, and *)
(* the element is 0.                                                        *)
C19_IgnoreBorderDividesByRealCount ==
    IgnoreBoxCall =>
        /\ ret.err = "none"
        /\ \A j \in 1..Len(ret.val.data) :
              IF WindowOf(j) = {} THEN IsZeroOverOne(ret.val.data[j])
              ELSE IsSumOverCount(ret.val.data[j], WindowOf(j))

\* a call with a window on padding only and a window on padding and an element
C19_Witness ==
    /\ IgnoreBoxCall
    /\ ret.err = "none"
    /\ \E j \in 1..Len(ret.val.data) : WindowOf(j) = {}
    /\ \E j \in 1..Len(ret.val.data) :
          /\ WindowOf(j) # {}
          /\ Cardinality(WindowOf(j)) < utils_product(args.size)

====
